---- MODULE Spec2Model ----
(***************************************************************************)
(* CloudSyncApplication: the synchronizer (sync/core.py), its change       *)
(* detector (sync/change_detector.py), the cloud operations                *)
(* (sync/cloud_ops.py), the Yandex Disk client (cloud_storage/             *)
(* yandex_disk.py) and the polling loop (main.py) as one state machine.    *)
(*                                                                         *)
(* A relative path "a/b/f" is the sequence of its components               *)
(* <<"a", "b", "f">>; str.split('/') and str.count('/') are then Len - 1   *)
(* and prefixes.  A local entry is the tuple <<mtime, size>> the scanner   *)
(* builds; a cloud item is the record the listing returns.  Python sets    *)
(* and dicts are iterated in an order the model picks freely.              *)
(*                                                                         *)
(* The local tree is read once per call (the scan); files are changed by   *)
(* the environment only while the loop sleeps.                             *)
(***************************************************************************)
EXTENDS Integers, Sequences, FiniteSets, TLC

\* ------------------------------------------------------------- bounds
MaxEnv == 1

\* ---------------------------------------------------- program constants
InitialScanRetries == 5
DefaultScanRetries == 3
UploadRetries == 3

\* ----------------------------------------------------------- universe
CloudFolder == "backup"

Mtimes == {1, 2}
Sizes == {1, 2}
LocalEntries == {<<m, s>> : m \in Mtimes, s \in Sizes}

\* The server stamps an upload with its own clock; another writer's file
\* may carry an older stamp.
ServerTime == 3
ForeignTime == 0
CloudTimes == {ForeignTime, ServerTime}

FlatU == {<<"f">>, <<"g">>}
NestedU == {<<"a", "b", "f">>, <<"x", "b", "f">>}
Universes == {FlatU, NestedU}

\* ------------------------------------------------------------ helpers
Range(s) == {s[i] : i \in DOMAIN s}

Perms(S) == {s \in [1..Cardinality(S) -> S] : \A i, j \in DOMAIN s : i /= j => s[i] /= s[j]}

\* The matched name left in the pool.
StillWith(s, e) == s

\* appeared.remove(e)
Without(s, e) == SelectSeq(s, LAMBDA y : y /= e)

IsPrefix(d, p) == Len(d) < Len(p) /\ SubSeq(p, 1, Len(d)) = d

Restrict(f, S) == [k \in S |-> f[k]]

Put(f, k, v) == [j \in DOMAIN f \cup {k} |-> IF j = k THEN v ELSE f[j]]

Drop(f, S) == [k \in DOMAIN f \ S |-> f[k]]

\* str.count('/')
Slashes(p) == Len(p) - 1

\* {'/'.join(f.split('/')[:i + 1]) for f in files for i in range(len(f.split('/')) - 1)}
FoldersOf(ps) == UNION {{SubSeq(p, 1, i) : i \in 1..(Len(p) - 1)} : p \in ps}

\* ------------------------------------------- YandexDiskClient (the remote)
\* item['path'] of a listing, and the path rename() is given.
DiskPath(rel) == <<"disk:", CloudFolder>> \o rel
ApiPath(rel) == <<"", CloudFolder>> \o rel
\* path.replace(f"disk:/{cloud_folder}/", "")
StripDisk(full) == IF Len(full) >= 2 /\ SubSeq(full, 1, 2) = <<"disk:", CloudFolder>> THEN SubSeq(full, 3, Len(full)) ELSE full
\* The server resolves both spellings to the same resource.
Resolve(full) == IF Len(full) >= 2 /\ full[2] = CloudFolder /\ full[1] \in {"disk:", ""} THEN SubSeq(full, 3, Len(full)) ELSE full

Under(c, rel) == {p \in DOMAIN c : p = rel \/ IsPrefix(rel, p)}

\* get_recursive_info: every file and every folder below the cloud folder.
get_recursive_info(c) ==
    {[path |-> DiskPath(p), type |-> "file", size |-> c[p].size, modified |-> c[p].modified] : p \in DOMAIN c}
    \cup {[path |-> DiskPath(d), type |-> "dir", size |-> 0, modified |-> 0] : d \in FoldersOf(DOMAIN c)}

\* load / reload: PUT of the local content, overwrite = True.
load(c, fs, rel) == Put(c, rel, [size |-> fs[rel][2], modified |-> ServerTime])

\* delete: DELETE of the resource, permanently; 404 when it does not exist.
CanDelete(c, full) == Under(c, Resolve(full)) /= {}
delete(c, full) == Drop(c, Under(c, Resolve(full)))

\* rename: POST resources/move with overwrite = True; 404 without a source.
CanRename(c, old, new) == Under(c, Resolve(old)) /= {}
rename(c, old, new) ==
    LET from == Resolve(old)
        to == Resolve(new)
        moved == Under(c, from)
        kept == DOMAIN c \ (moved \cup Under(c, to))
        Target(p) == to \o SubSeq(p, Len(from) + 1, Len(p))
    IN [q \in kept \cup {Target(p) : p \in moved} |->
           IF \E p \in moved : Target(p) = q
           THEN c[CHOOSE p \in moved : Target(p) = q]
           ELSE c[q]]

Call(op, src, dst, ok) == [op |-> op, src |-> src, dst |-> dst, ok |-> ok]

\* ----------------------------------------------------------- LocalScanner
scan_local_files(fs) == [p \in DOMAIN fs |-> <<fs[p][1], fs[p][2]>>]

\* ------------------------------------------------------- CloudOperations
\* scan_cloud_files_with_retry: nfail listings fail before one succeeds.
ScanCalls(nfail, max_retries) == IF nfail < max_retries THEN nfail + 1 ELSE max_retries
ScanRaises(nfail, max_retries) == nfail >= max_retries
ScanResult(c) ==
    LET files == {i \in get_recursive_info(c) : i.type = "file"}
    IN [rel \in {StripDisk(i.path) : i \in files} |-> CHOOSE i \in files : StripDisk(i.path) = rel]

\* The folders taken as the set gives them, without the sort.
Unsorted(s) == s

\* sorted(folders, key=lambda x: x.count('/')): stable, ascending.
RECURSIVE SortShallowFirst(_)
SortShallowFirst(s) ==
    IF s = <<>> THEN <<>>
    ELSE LET x == Head(s)
             rest == SortShallowFirst(Tail(s))
             n == Cardinality({i \in DOMAIN rest : Slashes(rest[i]) < Slashes(x)})
         IN SubSeq(rest, 1, n) \o <<x>> \o SubSeq(rest, n + 1, Len(rest))

\* create_folder_structure: the folders to create, in creation order.
FolderOrders(paths) == {SortShallowFirst(o) : o \in Perms(FoldersOf(paths))}

\* --------------------------------------------------------- ChangeDetector
\* check_local_changes with "mtime != last_mtime" for "mtime > last_mtime".
check_local_changes_any_mtime(current_local_, last_local) ==
    IF DOMAIN last_local = {} THEN TRUE
    ELSE IF DOMAIN current_local_ /= DOMAIN last_local THEN TRUE
    ELSE \E path \in DOMAIN current_local_ : current_local_[path] /= last_local[path]

\* check_local_changes(current_local, last_local)
check_local_changes(current_local_, last_local) ==
    IF DOMAIN last_local = {} THEN TRUE
    ELSE LET added_files == DOMAIN current_local_ \ DOMAIN last_local
             removed_files == DOMAIN last_local \ DOMAIN current_local_
         IN IF added_files /= {} THEN TRUE
            ELSE IF removed_files /= {} THEN TRUE
            ELSE \E path \in DOMAIN current_local_ :
                    /\ path \in DOMAIN last_local
                    /\ \/ current_local_[path][1] > last_local[path][1]
                       \/ current_local_[path][2] /= last_local[path][2]

\* check_cloud_changes(current_cloud, last_cloud)
check_cloud_changes(current_cloud_, last_cloud) ==
    IF DOMAIN last_cloud = {} THEN TRUE
    ELSE LET added == DOMAIN current_cloud_ \ DOMAIN last_cloud
             removed == DOMAIN last_cloud \ DOMAIN current_cloud_
         IN IF added /= {} \/ removed /= {} THEN TRUE
            ELSE \E path \in DOMAIN current_cloud_ :
                    /\ path \in DOMAIN last_cloud
                    /\ current_cloud_[path].modified /= last_cloud[path].modified

\* The identifier f"{size}-{mtime}" is the pair it is formatted from; "" is <<>>.
_get_file_identifier(rel_path, last_local) ==
    IF rel_path \in DOMAIN last_local
    THEN <<last_local[rel_path][2], last_local[rel_path][1]>>
    ELSE <<>>

\* stat() of the file itself; OSError gives "".
_calculate_file_identifier(fs, rel_path) ==
    IF rel_path \in DOMAIN fs THEN <<fs[rel_path][2], fs[rel_path][1]>> ELSE <<>>

\* The comparison with the mtime half of the identifier dropped.
SameSize(old_file_hash, new_file_hash) ==
    IF old_file_hash = <<>> \/ new_file_hash = <<>>
    THEN old_file_hash = new_file_hash
    ELSE old_file_hash[1] = new_file_hash[1]

\* old_file_hash == new_file_hash
SameIdentifier(old_file_hash, new_file_hash) == old_file_hash = new_file_hash

\* The inner loop of _find_renamed_files: the first appeared name, in
\* iteration order, that exists and carries the same identifier; <<>> if none.
FirstFileMatch(old_file_hash, appeared, fs) ==
    LET hits == {i \in DOMAIN appeared :
                    /\ appeared[i] \in DOMAIN fs
                    /\ SameIdentifier(old_file_hash, _calculate_file_identifier(fs, appeared[i]))}
    IN IF hits = {} THEN <<>>
       ELSE <<appeared[CHOOSE i \in hits : \A j \in hits : i <= j]>>

\* The outer loop with the test on the remote snapshot made after the match:
\* the matched name leaves the pool even when no pair is recorded.
RECURSIVE RenamedFilesLoopMatchFirst(_, _, _, _, _)
RenamedFilesLoopMatchFirst(disappeared, appeared, current_cloud_, last_local, fs) ==
    IF disappeared = <<>> THEN <<>>
    ELSE LET old_name == Head(disappeared)
             m == FirstFileMatch(_get_file_identifier(old_name, last_local), appeared, fs)
         IN IF m = <<>>
            THEN RenamedFilesLoopMatchFirst(Tail(disappeared), appeared, current_cloud_, last_local, fs)
            ELSE (IF old_name \in DOMAIN current_cloud_ THEN <<<<old_name, m[1]>>>> ELSE <<>>) \o
                 RenamedFilesLoopMatchFirst(Tail(disappeared), Without(appeared, m[1]), current_cloud_, last_local, fs)

\* The outer loop of _find_renamed_files over the disappeared names.
RECURSIVE RenamedFilesLoop(_, _, _, _, _)
RenamedFilesLoop(disappeared, appeared, current_cloud_, last_local, fs) ==
    IF disappeared = <<>> THEN <<>>
    ELSE LET old_name == Head(disappeared)
             m == FirstFileMatch(_get_file_identifier(old_name, last_local), appeared, fs)
         IN IF old_name \notin DOMAIN current_cloud_ \/ m = <<>>
            THEN RenamedFilesLoop(Tail(disappeared), appeared, current_cloud_, last_local, fs)
            ELSE <<<<old_name, m[1]>>>> \o
                 RenamedFilesLoop(Tail(disappeared), Without(appeared, m[1]), current_cloud_, last_local, fs)

\* _find_renamed_files: every list some iteration order of the two sets gives.
_find_renamed_files(current_local_, current_cloud_, last_local, fs) ==
    LET disappeared_locally == DOMAIN last_local \ DOMAIN current_local_
        appeared_locally == DOMAIN current_local_ \ DOMAIN last_local
    IN {RenamedFilesLoop(d, a, current_cloud_, last_local, fs) :
           d \in Perms(disappeared_locally), a \in Perms(appeared_locally)}

\* _compare_folder_structures without the comparison of the sizes.
_compare_folder_names(old_folder, new_folder, current_local_, current_cloud_) ==
    LET Sub(folder, f) == SubSeq(f, Len(folder) + 1, Len(f))
        old_keys == {f \in DOMAIN current_cloud_ : IsPrefix(old_folder, f)}
        new_keys == {f \in DOMAIN current_local_ : IsPrefix(new_folder, f)}
        old_files == {Sub(old_folder, f) : f \in old_keys}
    IN /\ Cardinality(old_keys) = Cardinality(new_keys)
       /\ \A f \in new_keys : Sub(new_folder, f) \in old_files

\* _compare_folder_structures(old_folder, new_folder, current_local, current_cloud)
_compare_folder_structures(old_folder, new_folder, current_local_, current_cloud_) ==
    LET Sub(folder, f) == SubSeq(f, Len(folder) + 1, Len(f))
        old_keys == {f \in DOMAIN current_cloud_ : IsPrefix(old_folder, f)}
        new_keys == {f \in DOMAIN current_local_ : IsPrefix(new_folder, f)}
        old_files == {Sub(old_folder, f) : f \in old_keys}
    IN /\ Cardinality(old_keys) = Cardinality(new_keys)
       /\ \A f \in new_keys :
             /\ Sub(new_folder, f) \in old_files
             /\ current_local_[f][2] = current_cloud_[old_folder \o Sub(new_folder, f)].size

FirstFolderMatch(old_folder, appeared, current_local_, current_cloud_) ==
    LET hits == {i \in DOMAIN appeared :
                    _compare_folder_structures(old_folder, appeared[i], current_local_, current_cloud_)}
    IN IF hits = {} THEN <<>>
       ELSE <<appeared[CHOOSE i \in hits : \A j \in hits : i <= j]>>

RECURSIVE RenamedFoldersLoop(_, _, _, _)
RenamedFoldersLoop(disappeared, appeared, current_local_, current_cloud_) ==
    IF disappeared = <<>> THEN <<>>
    ELSE LET old_folder == Head(disappeared)
             m == FirstFolderMatch(old_folder, appeared, current_local_, current_cloud_)
         IN IF m = <<>>
            THEN RenamedFoldersLoop(Tail(disappeared), appeared, current_local_, current_cloud_)
            ELSE <<<<old_folder, m[1]>>>> \o
                 RenamedFoldersLoop(Tail(disappeared), Without(appeared, m[1]), current_local_, current_cloud_)

\* _find_renamed_folders: every list some iteration order of the two sets gives.
_find_renamed_folders(current_local_, current_cloud_, last_local) ==
    LET last_folders == FoldersOf(DOMAIN last_local)
        current_folders == FoldersOf(DOMAIN current_local_)
    IN {RenamedFoldersLoop(d, a, current_local_, current_cloud_) :
           d \in Perms(last_folders \ current_folders),
           a \in Perms(current_folders \ last_folders)}

\* The sort with the key's minus sign lost: shallowest first.
RECURSIVE SortShallowestFirst(_)
SortShallowestFirst(s) ==
    IF s = <<>> THEN <<>>
    ELSE LET x == Head(s)
             rest == SortShallowestFirst(Tail(s))
             n == Cardinality({i \in DOMAIN rest : Slashes(rest[i][1]) < Slashes(x[1])})
         IN SubSeq(rest, 1, n) \o <<x>> \o SubSeq(rest, n + 1, Len(rest))

\* folder_renames.sort(key=lambda x: -x[0].count('/')): stable, deepest first.
RECURSIVE SortDeepestFirst(_)
SortDeepestFirst(s) ==
    IF s = <<>> THEN <<>>
    ELSE LET x == Head(s)
             rest == SortDeepestFirst(Tail(s))
             n == Cardinality({i \in DOMAIN rest : Slashes(rest[i][1]) > Slashes(x[1])})
         IN SubSeq(rest, 1, n) \o <<x>> \o SubSeq(rest, n + 1, Len(rest))

\* _parse_cloud_time reads the first 19 characters of the stamp, which the
\* server gives in UTC, as a naive time and takes its timestamp(), which is in
\* the zone of the host: the result is the stamp shifted by the host's offset
\* from UTC at that moment (east of UTC positive), up to TzOffset either way.
TzOffset == 1
TzOffsets == (0 - TzOffset)..TzOffset
_parse_cloud_time(timestr, tz) == timestr - tz

\* Step 3 without its first branch: a path the remote does not hold is skipped.
NeedsUploadOnlyKnown(rel_path, current_local_, current_cloud_, last_local, tz) ==
    rel_path \in DOMAIN current_cloud_

\* Step 3 of process_local_changes: whether rel_path is uploaded.
NeedsUpload(rel_path, current_local_, current_cloud_, last_local, tz) ==
    IF rel_path \notin DOMAIN current_cloud_ THEN TRUE
    ELSE LET local_mtime == current_local_[rel_path][1]
             local_size == current_local_[rel_path][2]
             cloud_mtime == _parse_cloud_time(current_cloud_[rel_path].modified, tz)
         IN IF rel_path \in DOMAIN last_local
               /\ (local_mtime > last_local[rel_path][1] \/ local_size /= last_local[rel_path][2])
            THEN TRUE
            ELSE local_mtime > cloud_mtime

\* processed_files without the update with the old names.
ProcessedNewNames(pairs) == {pr[2] : pr \in Range(pairs)}

\* processed_files after step 2.
ProcessedFiles(pairs) == {pr[2] : pr \in Range(pairs)} \cup {pr[1] : pr \in Range(pairs)}

\* Step 3 walks current_local_set - processed_files.
UploadSet(current_local_, pairs) == DOMAIN current_local_ \ ProcessedFiles(pairs)

\* Step 4 without "- current_local_set".
DeleteSetAllRemote(current_local_, current_cloud_, pairs) ==
    DOMAIN current_cloud_ \ ProcessedFiles(pairs)

\* Step 4 with "& processed_files" for "- processed_files".
DeleteSetOnlyProcessed(current_local_, current_cloud_, pairs) ==
    (DOMAIN current_cloud_ \ DOMAIN current_local_) \cap ProcessedFiles(pairs)

\* Step 4 walks current_cloud_set - current_local_set - processed_files.
DeleteSet(current_local_, current_cloud_, pairs) ==
    (DOMAIN current_cloud_ \ DOMAIN current_local_) \ ProcessedFiles(pairs)

\* No loop wraps its item in try/except.
NothingCaught(step) == FALSE

\* Every loop logs the failure of an item and goes on.
EverythingCaught(step) == TRUE

\* Which loops log the failure of one item and go on: the folder renames
\* and the file renames of process_local_changes do; its uploads and deletes
\* have no try/except, and the loops of clean_cloud_storage,
\* create_folder_structure and upload_file raise SyncError from theirs.
ItemCaught(step) == step \in {"folders", "files"}

\* process_local_changes run under "if local_changes or cloud_changes".
RunsOnEitherSignal(local_changes_, cloud_changes_) == local_changes_ \/ cloud_changes_

\* sync(), line 104: process_local_changes runs under "if local_changes".
RunsReconciliation(local_changes_, cloud_changes_) == local_changes_

\* The early return under "if local_files is None".
NeverNothingToSync(local_files) == FALSE

\* initial_sync(), line 55: the early return under "if not local_files".
NothingToSync(local_files) == DOMAIN local_files = {}

\* The wipe run under "if not cloud_files".
NeedsWipeInverted(cloud_files) == DOMAIN cloud_files = {}

\* initial_sync(), line 62: the wipe runs under "if cloud_files".
NeedsWipe(cloud_files) == DOMAIN cloud_files /= {}

\* ------------------------------------------------------------------ state
VARIABLES
    U,                  \* the paths the environment uses in this run
    supports_move,      \* hasattr(cloud_client, 'rename')
    local,              \* the local tree: path -> <<mtime, size>>
    cloud,              \* the files of the remote store: path -> [size, modified]
    _last_local_state,  \* FileSynchronizer._last_local_state
    _last_cloud_state,  \* FileSynchronizer._last_cloud_state
    pc,                 \* where main() stands
    call,               \* the method that runs or has just returned
    outcome,            \* "running", "ok" (returned) or "raised" (SyncError)
    current_local,      \* sync: current_local; initial_sync: local_files
    current_cloud,      \* sync: current_cloud; initial_sync: cloud_files
    local_changes,      \* sync: the local signal
    cloud_changes,      \* sync: the remote signal
    renamed_pairs,      \* process_local_changes: renamed_pairs
    folder_renames,     \* process_local_changes: folder_renames, sorted
    todo,               \* the items the running loop has still to visit
    log,                \* the client calls of the running call, in order
    env,                \* environment events so far
    prev,               \* call and outcome of the call before this one
    quiet               \* no environment event since that call returned

vars == <<U, supports_move, local, cloud, _last_local_state, _last_cloud_state, pc, call,
          outcome, current_local, current_cloud, local_changes, cloud_changes,
          renamed_pairs, folder_renames, todo, log, env, prev, quiet>>

world == <<U, supports_move, local>>
baseline == <<_last_local_state, _last_cloud_state>>
counters == <<env, prev, quiet>>
detected == <<local_changes, cloud_changes, renamed_pairs, folder_renames>>
snapshots == <<current_local, current_cloud>>

Empty == <<>>

PartialMaps(S, V) == UNION {[D -> V] : D \in SUBSET S}

\* FileSynchronizer.__init__: both baselines empty; main() is about to call
\* initial_sync().  The local tree and the remote store are whatever they are.
Init ==
    /\ U \in Universes
    /\ supports_move = TRUE
    /\ local \in PartialMaps(U, LocalEntries)
    /\ cloud \in PartialMaps(U, {[size |-> 1, modified |-> ForeignTime]})
    /\ _last_local_state = Empty
    /\ _last_cloud_state = Empty
    /\ pc = "start"
    /\ call = "none"
    /\ outcome = "ok"
    /\ current_local = Empty
    /\ current_cloud = Empty
    /\ local_changes = FALSE
    /\ cloud_changes = FALSE
    /\ renamed_pairs = <<>>
    /\ folder_renames = <<>>
    /\ todo = <<>>
    /\ log = <<>>
    /\ env = 0
    /\ prev = <<"none", "ok">>
    /\ quiet = TRUE

\* main() with sync() called outside the try of its loop.
FatalFrom(method) == "dead"

\* A SyncError leaves the method: main() logs it and sleeps (sync), or
\* re-raises it and the process ends (initial_sync).
RaisedFrom(method) == IF method = "initial_sync" THEN "dead" ELSE "returned"

Raised == RaisedFrom(call)

\* -------------------------------------------------------------- initial_sync
\* Stages 1-2: the local scan, the early return, the remote listing.
InitialSyncBegin ==
    /\ pc = "start"
    /\ call' = "initial_sync"
    /\ current_local' = scan_local_files(local)
    /\ log' = <<>>
    /\ UNCHANGED <<world, cloud, baseline, counters, detected>>
    /\ IF NothingToSync(current_local')
       THEN /\ pc' = "returned"
            /\ outcome' = "ok"
            /\ UNCHANGED <<current_cloud, todo>>
       ELSE \E nfail \in 0..InitialScanRetries :
               IF ScanRaises(nfail, InitialScanRetries)
               THEN /\ pc' = "dead"
                    /\ outcome' = "raised"
                    /\ UNCHANGED <<current_cloud, todo>>
               ELSE /\ current_cloud' = ScanResult(cloud)
                    /\ outcome' = "running"
                    /\ IF NeedsWipe(current_cloud')
                       THEN /\ pc' = "wipe"
                            /\ todo' \in Perms(DOMAIN current_cloud')
                       ELSE /\ pc' = "mkdir"
                            /\ todo' \in FolderOrders(DOMAIN current_local')

\* Stage 3, clean_cloud_storage: one delete of the loop.
WipeStep ==
    /\ pc = "wipe"
    /\ todo /= <<>>
    /\ LET item == current_cloud[Head(todo)]
       IN \E ok \in BOOLEAN :
             /\ ok => CanDelete(cloud, item.path)
             /\ log' = Append(log, Call("delete", item.path, <<>>, ok))
             /\ cloud' = IF ok THEN delete(cloud, item.path) ELSE cloud
             /\ IF ok \/ ItemCaught("wipe")
                THEN /\ todo' = Tail(todo)
                     /\ UNCHANGED <<pc, outcome>>
                ELSE /\ pc' = Raised
                     /\ outcome' = "raised"
                     /\ UNCHANGED todo
    /\ UNCHANGED <<world, baseline, call, snapshots, counters, detected>>

\* Stage 4 begins: create_folder_structure sorts the folders.
WipeDone ==
    /\ pc = "wipe"
    /\ todo = <<>>
    /\ pc' = "mkdir"
    /\ todo' \in FolderOrders(DOMAIN current_local)
    /\ UNCHANGED <<world, cloud, baseline, call, outcome, snapshots, log, counters, detected>>

\* Stage 4, create_folder_structure: one create_folder of the loop.
MkdirStep ==
    /\ pc = "mkdir"
    /\ todo /= <<>>
    /\ \E ok \in BOOLEAN :
          /\ log' = Append(log, Call("create_folder", Head(todo), <<>>, ok))
          /\ IF ok \/ ItemCaught("mkdir")
             THEN /\ todo' = Tail(todo)
                  /\ UNCHANGED <<pc, outcome>>
             ELSE /\ pc' = Raised
                  /\ outcome' = "raised"
                  /\ UNCHANGED todo
    /\ UNCHANGED <<world, cloud, baseline, call, snapshots, counters, detected>>

\* Stage 5 begins: upload_all_files walks local_files.
MkdirDone ==
    /\ pc = "mkdir"
    /\ todo = <<>>
    /\ pc' = "upload"
    /\ todo' \in Perms(DOMAIN current_local)
    /\ UNCHANGED <<world, cloud, baseline, call, outcome, snapshots, log, counters, detected>>

\* upload_file(rel_path, max_retries): nfail attempts fail, then one succeeds.
UploadAttempts(rel_path, nfail, max_retries) ==
    [i \in 1..ScanCalls(nfail, max_retries) |-> Call("load", rel_path, <<>>, i > nfail)]

\* Stage 5, upload_all_files: one upload_file of the loop, retries included;
\* upload_file returns at once when the local file no longer exists.
UploadAllStep ==
    /\ pc = "upload"
    /\ todo /= <<>>
    /\ IF Head(todo) \notin DOMAIN local
       THEN /\ todo' = Tail(todo)
            /\ UNCHANGED <<cloud, log, pc, outcome>>
       ELSE \E nfail \in 0..UploadRetries :
               /\ log' = log \o UploadAttempts(Head(todo), nfail, UploadRetries)
               /\ cloud' = IF nfail < UploadRetries THEN load(cloud, local, Head(todo)) ELSE cloud
               /\ IF nfail < UploadRetries \/ ItemCaught("upload")
                  THEN /\ todo' = Tail(todo)
                       /\ UNCHANGED <<pc, outcome>>
                  ELSE /\ pc' = Raised
                       /\ outcome' = "raised"
                       /\ UNCHANGED todo
    /\ UNCHANGED <<world, baseline, call, snapshots, counters, detected>>

\* validate_sync with nothing ever found missing.
MissingNothing(local_files, cloud_files) == {}

\* validate_sync, line 177: the local paths the listing does not hold.
MissingFiles(local_files, cloud_files) == DOMAIN local_files \ DOMAIN cloud_files

\* Stage 6, validate_sync, and the commit of both baselines.
ValidateAndCommit ==
    /\ pc = "upload"
    /\ todo = <<>>
    /\ \E nfail \in 0..InitialScanRetries, nfail2 \in 0..DefaultScanRetries :
          LET cloud_files == ScanResult(cloud)
              missing_files == MissingFiles(current_local, cloud_files)
          IN IF ScanRaises(nfail, InitialScanRetries) \/ missing_files /= {}
             THEN /\ pc' = Raised
                  /\ outcome' = "raised"
                  /\ UNCHANGED baseline
             ELSE /\ _last_local_state' = current_local
                  /\ IF ScanRaises(nfail2, DefaultScanRetries)
                     THEN /\ pc' = Raised
                          /\ outcome' = "raised"
                          /\ UNCHANGED _last_cloud_state
                     ELSE /\ pc' = "returned"
                          /\ outcome' = "ok"
                          /\ _last_cloud_state' = ScanResult(cloud)
    /\ UNCHANGED <<world, cloud, call, snapshots, todo, log, counters, detected>>

\* ----------------------------------------------------------------- sync
\* process_local_changes with step 4 written before step 3.
StepAfterDeletesFirst(step) ==
    CASE step = "folders" -> "files"
      [] step = "files" -> "deletes"
      [] step = "deletes" -> "uploads"
      [] OTHER -> "commit"

\* The order of the four steps in the body of process_local_changes, and
\* the return to sync().
StepAfter(step) ==
    CASE step = "folders" -> "files"
      [] step = "files" -> "uploads"
      [] step = "uploads" -> "deletes"
      [] OTHER -> "commit"

\* The items a step visits, in each order its loop may take them.
StepItems(step) ==
    CASE step = "files" -> {renamed_pairs}
      [] step = "uploads" -> Perms(UploadSet(current_local, renamed_pairs))
      [] step = "deletes" -> Perms(DeleteSet(current_local, current_cloud, renamed_pairs))
      [] OTHER -> {<<>>}

\* sync() up to the call of process_local_changes: both scans, both signals,
\* the early return, and the two rename lists process_local_changes builds
\* before its first step.
SyncBegin ==
    /\ pc = "idle"
    /\ call' = "sync"
    /\ log' = <<>>
    /\ current_local' = scan_local_files(local)
    /\ UNCHANGED <<world, cloud, baseline, counters>>
    /\ \E nfail \in 0..DefaultScanRetries :
          IF ScanRaises(nfail, DefaultScanRetries)
          THEN /\ pc' = RaisedFrom("sync")
               /\ outcome' = "raised"
               /\ UNCHANGED <<current_cloud, detected, todo>>
          ELSE /\ current_cloud' = ScanResult(cloud)
               /\ local_changes' = check_local_changes(current_local', _last_local_state)
               /\ cloud_changes' = check_cloud_changes(current_cloud', _last_cloud_state)
               /\ IF ~local_changes' /\ ~cloud_changes'
                  THEN /\ pc' = "returned"
                       /\ outcome' = "ok"
                       /\ UNCHANGED <<renamed_pairs, folder_renames, todo>>
                  ELSE IF RunsReconciliation(local_changes', cloud_changes')
                  THEN /\ pc' = "folders"
                       /\ outcome' = "running"
                       /\ renamed_pairs' \in _find_renamed_files(current_local', current_cloud', _last_local_state, local)
                       /\ \E found \in _find_renamed_folders(current_local', current_cloud', _last_local_state) :
                             folder_renames' = SortDeepestFirst(found)
                       /\ todo' = folder_renames'
                  ELSE /\ pc' = "commit"
                       /\ outcome' = "running"
                       /\ UNCHANGED <<renamed_pairs, folder_renames, todo>>

\* Step 1: one folder rename; _process_folder_rename raises when the move
\* fails or is not supported, and the loop catches.
FolderRenameStep ==
    /\ pc = "folders"
    /\ todo /= <<>>
    /\ LET old_path == ApiPath(Head(todo)[1])
           new_path == ApiPath(Head(todo)[2])
           tried == IF supports_move THEN {TRUE, FALSE} ELSE {FALSE}
       IN \E ok \in tried :
             /\ ok => CanRename(cloud, old_path, new_path)
             /\ log' = IF supports_move
                       THEN Append(log, Call("rename", old_path, new_path, ok))
                       ELSE log
             /\ cloud' = IF ok THEN rename(cloud, old_path, new_path) ELSE cloud
             /\ IF ok \/ ItemCaught("folders")
                THEN /\ todo' = Tail(todo)
                     /\ UNCHANGED <<pc, outcome>>
                ELSE /\ pc' = RaisedFrom("sync")
                     /\ outcome' = "raised"
                     /\ UNCHANGED todo
    /\ UNCHANGED <<world, baseline, call, snapshots, counters, detected>>

FolderRenamesDone ==
    /\ pc = "folders"
    /\ todo = <<>>
    /\ pc' = StepAfter("folders")
    /\ todo' \in StepItems(pc')
    /\ UNCHANGED <<world, cloud, baseline, call, outcome, snapshots, log, counters, detected>>

\* Step 2: one file rename: _try_rename_cloud_file (which swallows a failing
\* move), else load of the new name and delete of the old one; what these
\* two raise is caught by the loop.
FileRenameStep ==
    /\ pc = "files"
    /\ todo /= <<>>
    /\ LET old_name == Head(todo)[1]
           new_name == Head(todo)[2]
           old_path == ApiPath(old_name)
           new_path == ApiPath(new_name)
           tried == IF supports_move THEN {TRUE, FALSE} ELSE {FALSE}
           log1(moved) == IF supports_move
                          THEN Append(log, Call("rename", old_path, new_path, moved))
                          ELSE log
           cloud2 == load(cloud, local, new_name)
       IN \E moved \in tried, loaded \in BOOLEAN, deleted \in BOOLEAN :
             LET log2 == Append(log1(moved), Call("load", new_name, <<>>, loaded))
                 failed == ~moved /\ (~loaded \/ ~deleted)
             IN /\ moved => CanRename(cloud, old_path, new_path)
                /\ IF moved
                   THEN /\ loaded /\ deleted
                        /\ log' = log1(moved)
                        /\ cloud' = rename(cloud, old_path, new_path)
                   ELSE IF ~loaded
                   THEN /\ deleted
                        /\ log' = log2
                        /\ cloud' = cloud
                   ELSE IF old_name \in DOMAIN current_cloud
                   THEN /\ deleted => CanDelete(cloud2, current_cloud[old_name].path)
                        /\ log' = Append(log2, Call("delete", current_cloud[old_name].path, <<>>, deleted))
                        /\ cloud' = IF deleted THEN delete(cloud2, current_cloud[old_name].path) ELSE cloud2
                   ELSE /\ deleted
                        /\ log' = log2
                        /\ cloud' = cloud2
                /\ IF failed /\ ~ItemCaught("files")
                   THEN /\ pc' = RaisedFrom("sync")
                        /\ outcome' = "raised"
                        /\ UNCHANGED todo
                   ELSE /\ todo' = Tail(todo)
                        /\ UNCHANGED <<pc, outcome>>
    /\ UNCHANGED <<world, baseline, call, snapshots, counters, detected>>

\* processed_files is set; step 3 walks current_local_set - processed_files.
FileRenamesDone ==
    /\ pc = "files"
    /\ todo = <<>>
    /\ pc' = StepAfter("files")
    /\ todo' \in StepItems(pc')
    /\ UNCHANGED <<world, cloud, baseline, call, outcome, snapshots, log, counters, detected>>

\* Step 3: one path of the loop; a failing load leaves process_local_changes
\* and sync() raises SyncError.
UploadStep ==
    /\ pc = "uploads"
    /\ todo /= <<>>
    /\ \E tz \in TzOffsets :
          IF NeedsUpload(Head(todo), current_local, current_cloud, _last_local_state, tz)
          THEN \E ok \in BOOLEAN :
                  /\ log' = Append(log, Call("load", Head(todo), <<>>, ok))
                  /\ cloud' = IF ok THEN load(cloud, local, Head(todo)) ELSE cloud
                  /\ IF ok \/ ItemCaught("uploads")
                     THEN /\ todo' = Tail(todo)
                          /\ UNCHANGED <<pc, outcome>>
                     ELSE /\ pc' = RaisedFrom("sync")
                          /\ outcome' = "raised"
                          /\ UNCHANGED todo
          ELSE /\ todo' = Tail(todo)
               /\ UNCHANGED <<cloud, log, pc, outcome>>
    /\ UNCHANGED <<world, baseline, call, snapshots, counters, detected>>

\* Step 4 walks current_cloud_set - current_local_set - processed_files.
UploadsDone ==
    /\ pc = "uploads"
    /\ todo = <<>>
    /\ pc' = StepAfter("uploads")
    /\ todo' \in StepItems(pc')
    /\ UNCHANGED <<world, cloud, baseline, call, outcome, snapshots, log, counters, detected>>

\* Step 4: one delete of the loop; a failing delete leaves the method too.
DeleteStep ==
    /\ pc = "deletes"
    /\ todo /= <<>>
    /\ LET target == current_cloud[Head(todo)].path
       IN \E ok \in BOOLEAN :
             /\ ok => CanDelete(cloud, target)
             /\ log' = Append(log, Call("delete", target, <<>>, ok))
             /\ cloud' = IF ok THEN delete(cloud, target) ELSE cloud
             /\ IF ok \/ ItemCaught("deletes")
                THEN /\ todo' = Tail(todo)
                     /\ UNCHANGED <<pc, outcome>>
                ELSE /\ pc' = RaisedFrom("sync")
                     /\ outcome' = "raised"
                     /\ UNCHANGED todo
    /\ UNCHANGED <<world, baseline, call, snapshots, counters, detected>>

DeletesDone ==
    /\ pc = "deletes"
    /\ todo = <<>>
    /\ pc' = StepAfter("deletes")
    /\ todo' \in StepItems(pc')
    /\ UNCHANGED <<world, cloud, baseline, call, outcome, snapshots, log, counters, detected>>

\* Commit with line 110 left out: only the remote baseline is replaced.
CommitCloudOnly ==
    /\ pc = "commit"
    /\ _last_cloud_state' = current_cloud
    /\ pc' = "returned"
    /\ outcome' = "ok"
    /\ UNCHANGED <<world, cloud, _last_local_state, call, snapshots, todo, log, counters, detected>>

\* sync(), lines 110-111: both baselines are replaced by the tick's snapshots.
Commit ==
    /\ pc = "commit"
    /\ _last_local_state' = current_local
    /\ _last_cloud_state' = current_cloud
    /\ pc' = "returned"
    /\ outcome' = "ok"
    /\ UNCHANGED <<world, cloud, call, snapshots, todo, log, counters, detected>>

\* ----------------------------------------------------------------- main
\* The call has returned (or main() caught its SyncError): its locals are
\* gone and the loop sleeps until the next tick.
Sleep ==
    /\ pc = "returned"
    /\ pc' = "idle"
    /\ prev' = <<call, outcome>>
    /\ quiet' = TRUE
    /\ current_local' = Empty
    /\ current_cloud' = Empty
    /\ local_changes' = FALSE
    /\ cloud_changes' = FALSE
    /\ renamed_pairs' = <<>>
    /\ folder_renames' = <<>>
    /\ todo' = <<>>
    /\ log' = <<>>
    /\ UNCHANGED <<world, cloud, baseline, call, outcome, env>>

\* ---------------------------------------------------------- environment
EnvStep ==
    /\ pc = "idle"
    /\ env < MaxEnv
    /\ env' = env + 1
    /\ quiet' = FALSE
    /\ UNCHANGED <<U, supports_move, baseline, pc, call, outcome, snapshots, detected, todo, log, prev>>

\* A file is created or rewritten.
LocalWrite ==
    /\ EnvStep
    /\ \E p \in U, e \in LocalEntries :
          /\ IF p \in DOMAIN local THEN local[p] /= e ELSE TRUE
          /\ local' = Put(local, p, e)
    /\ UNCHANGED cloud

\* A file is removed.
LocalRemove ==
    /\ EnvStep
    /\ \E p \in DOMAIN local : local' = Drop(local, {p})
    /\ UNCHANGED cloud

\* A file is renamed (or moved to another folder): mtime and size stay.
LocalRename ==
    /\ EnvStep
    /\ \E p \in DOMAIN local, q \in U \ DOMAIN local :
          local' = Put(Drop(local, {p}), q, local[p])
    /\ UNCHANGED cloud

\* A file is removed and an unrelated one is created under another name.
LocalReplace ==
    /\ EnvStep
    /\ \E p \in DOMAIN local, q \in U \ DOMAIN local, e \in LocalEntries :
          /\ e /= local[p]
          /\ local' = Put(Drop(local, {p}), q, e)
    /\ UNCHANGED cloud

\* Someone else removes or writes a file of the remote store.
RemoteForeign ==
    /\ EnvStep
    /\ \/ \E p \in DOMAIN cloud : cloud' = Drop(cloud, {p})
       \/ \E p \in U : /\ IF p \in DOMAIN cloud THEN cloud[p].modified /= ForeignTime ELSE TRUE
                       /\ cloud' = Put(cloud, p, [size |-> 1, modified |-> ForeignTime])
    /\ UNCHANGED local

Next ==
    \/ InitialSyncBegin
    \/ WipeStep
    \/ WipeDone
    \/ MkdirStep
    \/ MkdirDone
    \/ UploadAllStep
    \/ ValidateAndCommit
    \/ SyncBegin
    \/ FolderRenameStep
    \/ FolderRenamesDone
    \/ FileRenameStep
    \/ FileRenamesDone
    \/ UploadStep
    \/ UploadsDone
    \/ DeleteStep
    \/ DeletesDone
    \/ Commit
    \/ Sleep
    \/ LocalWrite
    \/ LocalRemove
    \/ LocalRename
    \/ LocalReplace
    \/ RemoteForeign

Spec == Init /\ [][Next]_vars

\* ------------------------------------------ check_local_changes on its own
\* Any local snapshot against any local baseline.
InitLocalSignal ==
    /\ U \in Universes
    /\ supports_move = TRUE
    /\ local = Empty
    /\ cloud = Empty
    /\ current_local \in PartialMaps(U, LocalEntries)
    /\ _last_local_state \in PartialMaps(U, LocalEntries)
    /\ _last_cloud_state = Empty
    /\ pc = "signal"
    /\ call = "check_local_changes"
    /\ outcome = "running"
    /\ current_cloud = Empty
    /\ local_changes = FALSE
    /\ cloud_changes = FALSE
    /\ renamed_pairs = <<>>
    /\ folder_renames = <<>>
    /\ todo = <<>>
    /\ log = <<>>
    /\ env = 0
    /\ prev = <<"none", "ok">>
    /\ quiet = TRUE

CheckLocalSignal ==
    /\ pc = "signal"
    /\ local_changes' = check_local_changes(current_local, _last_local_state)
    /\ pc' = "signalled"
    /\ outcome' = "ok"
    /\ UNCHANGED <<world, cloud, baseline, call, snapshots, cloud_changes, renamed_pairs,
                   folder_renames, todo, log, counters>>

SpecLocalSignal == InitLocalSignal /\ [][CheckLocalSignal]_vars

\* --------------------------------------------- ticks over a wider tree
\* One folder that may be renamed with its file, and one file beside it.
TickU == {<<"a", "f">>, <<"x", "f">>, <<"g">>}
TickEntries == {<<1, 1>>, <<2, 1>>}
\* The baseline holds the older entry: a local file is as committed or newer.
TickBaselineEntries == {<<1, 1>>}

\* main() asleep between two ticks, with any local baseline a commit may
\* have left, any local tree and any remote store, with or without move.
InitTick ==
    /\ U = TickU
    /\ supports_move \in BOOLEAN
    /\ local \in PartialMaps(U, TickEntries)
    /\ cloud \in PartialMaps(U, {[size |-> 1, modified |-> ForeignTime]})
    /\ _last_local_state \in PartialMaps(U, TickBaselineEntries)
    /\ _last_cloud_state = Empty
    /\ pc = "idle"
    /\ call = "sync"
    /\ outcome = "ok"
    /\ current_local = Empty
    /\ current_cloud = Empty
    /\ local_changes = FALSE
    /\ cloud_changes = FALSE
    /\ renamed_pairs = <<>>
    /\ folder_renames = <<>>
    /\ todo = <<>>
    /\ log = <<>>
    /\ env = 0
    /\ prev = <<"sync", "ok">>
    /\ quiet = TRUE

NextTick ==
    \/ SyncBegin
    \/ FolderRenameStep
    \/ FolderRenamesDone
    \/ FileRenameStep
    \/ FileRenamesDone
    \/ UploadStep
    \/ UploadsDone
    \/ DeleteStep
    \/ DeletesDone
    \/ Commit
    \/ Sleep

SpecTick == InitTick /\ [][NextTick]_vars

\* ===================================================================
\* Properties
\* ===================================================================
\* process_local_changes is running, or has just returned to sync().
InReconciliation == call = "sync" /\ pc \in {"folders", "files", "uploads", "deletes"}
Reconciled == call = "sync" /\ pc = "commit" /\ local_changes

CallsOf(ops) == {i \in DOMAIN log : log[i].op \in ops}
Issued(op, src) == \E i \in DOMAIN log : log[i].op = op /\ Resolve(log[i].src) = src
Succeeded(op, src) == \E i \in DOMAIN log : log[i].op = op /\ Resolve(log[i].src) = src /\ log[i].ok

\* C1 as stated: a sync() that follows a sync() with no change of the local
\* tree or of the remote store in between issues no mutating call.
C1_SecondTickIssuesNothing ==
    (call = "sync" /\ prev[1] = "sync" /\ quiet) => log = <<>>

\* C1, amended: a sync() that follows a sync() which returned without raising,
\* with no change of the local tree or of the remote store in between, issues
\* no mutating call (no load, delete, rename or create_folder).
C1_SecondTickAfterReturnIssuesNothing ==
    (call = "sync" /\ prev = <<"sync", "ok">> /\ quiet) => log = <<>>

\* The second tick saw the remote signal (the first tick's own uploads) and
\* has returned without a call.
C1_Witness ==
    /\ pc = "returned" /\ call = "sync" /\ outcome = "ok"
    /\ prev = <<"sync", "ok">> /\ quiet
    /\ cloud_changes /\ ~local_changes
    /\ log = <<>>

\* Between the baseline and the tick's local snapshot exactly one file, a, was
\* renamed to b, mtime and size kept, and a is in the remote snapshot.
SingleRename(a, b) ==
    /\ a \in DOMAIN _last_local_state
    /\ b \notin DOMAIN _last_local_state
    /\ a \in DOMAIN current_cloud
    /\ DOMAIN current_local = (DOMAIN _last_local_state \ {a}) \cup {b}
    /\ current_local[b] = _last_local_state[a]
    /\ \A p \in DOMAIN current_local \ {b} : current_local[p] = _last_local_state[p]

RenameIsOneMove(a, b) ==
    /\ Cardinality(CallsOf({"rename"})) = 1
    /\ \A i \in CallsOf({"rename"}) : log[i].src = ApiPath(a) /\ log[i].dst = ApiPath(b)
    /\ \A i \in CallsOf({"load", "delete"}) : Resolve(log[i].src) \notin {a, b}
    /\ DOMAIN cloud = DOMAIN local

\* C2 as stated: a tick that reconciles a single rename a -> b (mtime and size
\* kept, a in the remote snapshot, move supported and a move succeeding)
\* issues exactly one rename call, a -> b, no load and no delete of a or b,
\* and leaves the remote file set equal to the local one.
C2_RenameIsOneMove ==
    \A a, b \in U :
        (Reconciled /\ SingleRename(a, b) /\ supports_move
            /\ (\E i \in CallsOf({"rename"}) : log[i].ok))
        => RenameIsOneMove(a, b)

\* C2 where no folder appears or disappears with the rename: there the claim
\* holds.
C2_RenameWithinFolderIsOneMove ==
    \A a, b \in U :
        (Reconciled /\ SingleRename(a, b) /\ supports_move /\ folder_renames = <<>>
            /\ (\E i \in CallsOf({"rename"}) : log[i].ok))
        => RenameIsOneMove(a, b)

\* A disappears and B appears with A's size and another mtime.
SameSizeOtherMtime(A, B) ==
    /\ A \in DOMAIN _last_local_state \ DOMAIN current_local
    /\ B \in DOMAIN current_local \ DOMAIN _last_local_state
    /\ _last_local_state[A][2] = current_local[B][2]
    /\ _last_local_state[A][1] /= current_local[B][1]

\* C3: when A disappears and B appears with the same size and a different
\* mtime, (A, B) is never in renamed_pairs, and the tick that gets through
\* steps 3 and 4 has uploaded B (absent from the remote snapshot) and issued
\* the delete of A (present in the remote snapshot).
C3_NoRenameOnSizeAlone ==
    \A A, B \in U :
        ((InReconciliation \/ Reconciled) /\ SameSizeOtherMtime(A, B)) =>
            /\ <<A, B>> \notin Range(renamed_pairs)
            /\ (Reconciled /\ {A, B} \cap ProcessedFiles(renamed_pairs) = {}) =>
                  /\ B \notin DOMAIN current_cloud => Succeeded("load", B)
                  /\ A \in DOMAIN current_cloud => Issued("delete", A)

C3_Witness ==
    \E A, B \in U :
        /\ Reconciled /\ SameSizeOtherMtime(A, B)
        /\ renamed_pairs = <<>>
        /\ A \in DOMAIN current_cloud /\ B \notin DOMAIN current_cloud
        /\ Succeeded("load", B) /\ Succeeded("delete", A)

\* A is in the baseline and in the remote snapshot, gone locally, and not the
\* old name of a rename pair.
RemovedLocally(A) ==
    /\ A \in DOMAIN _last_local_state
    /\ A \in DOMAIN current_cloud
    /\ A \notin DOMAIN current_local
    /\ A \notin ProcessedFiles(renamed_pairs)

DeletionReachesRemote ==
    \A A \in U :
        (Reconciled /\ RemovedLocally(A) /\ \A i \in DOMAIN log : log[i].ok)
        => A \notin DOMAIN cloud

\* No step of the program puts a file on the remote at a path with no local
\* file (steps of the environment are those that count env up).
NeverCreatedWhileAbsent ==
    \A p \in U :
        (env' = env /\ p \notin DOMAIN local /\ p \notin DOMAIN cloud) => p \notin DOMAIN cloud'

\* C4: a file of the baseline and of the remote that is removed locally, and
\* not matched as a rename, is absent from the remote when the next tick has
\* reconciled with every call succeeding; and no later step of any tick puts
\* a file on the remote at a path that has no local file.
C4_DeletionPropagates == []DeletionReachesRemote /\ [][NeverCreatedWhileAbsent]_vars

C4_Witness ==
    \E A \in U :
        /\ Reconciled /\ RemovedLocally(A)
        /\ \A i \in DOMAIN log : log[i].ok
        /\ Succeeded("delete", A)
        /\ A \notin DOMAIN cloud

\* C5: when initial_sync returns without error for a non-empty local tree,
\* the remote file set is exactly the local file set.
C5_WipeThenRebuild ==
    (pc = "returned" /\ call = "initial_sync" /\ outcome = "ok" /\ DOMAIN current_local /= {})
    => DOMAIN cloud = DOMAIN local

\* A remote file that was not in the local tree has been wiped.
C5_Witness ==
    /\ pc = "returned" /\ call = "initial_sync" /\ outcome = "ok"
    /\ DOMAIN current_local /= {}
    /\ \E i \in DOMAIN log : log[i].op = "delete" /\ Resolve(log[i].src) \notin DOMAIN local
    /\ DOMAIN cloud = DOMAIN local

\* The folder renames step 1 has issued so far.
FolderMovesIssued == IF pc = "folders" THEN Len(folder_renames) - Len(todo) ELSE Len(folder_renames)

\* C6: the rename calls of step 1 are the folder renames in list order, in
\* non-increasing number of '/' of the old path; the call for a folder comes
\* after the call for each of its descendants.
C6_DeepestFolderFirst ==
    ((InReconciliation \/ Reconciled) /\ supports_move) =>
        LET n == FolderMovesIssued
        IN /\ Len(log) >= n
           /\ \A i \in 1..n :
                 /\ log[i].op = "rename"
                 /\ log[i].src = ApiPath(folder_renames[i][1])
                 /\ log[i].dst = ApiPath(folder_renames[i][2])
           /\ \A i, j \in 1..n :
                 /\ i < j => Slashes(Resolve(log[i].src)) >= Slashes(Resolve(log[j].src))
                 /\ IsPrefix(Resolve(log[j].src), Resolve(log[i].src)) => i < j

C6_Witness ==
    /\ call = "sync" /\ pc = "files"
    /\ Len(folder_renames) = 2
    /\ IsPrefix(folder_renames[2][1], folder_renames[1][1])
    /\ CallsOf({"rename"}) = {1, 2}

\* The signal as the claim words it.
SignalAsStated(cur, last) ==
    \/ DOMAIN last = {}
    \/ DOMAIN cur /= DOMAIN last
    \/ \E p \in DOMAIN cur \cap DOMAIN last : cur[p][2] /= last[p][2] \/ cur[p][1] > last[p][1]

\* C7: check_local_changes is true exactly when the baseline is empty, or the
\* key sets differ, or a shared path has another size or a strictly newer
\* mtime; so it is true for a non-empty tree without a baseline, and false
\* when the only difference is an older mtime.
C7_LocalSignal ==
    pc = "signalled" =>
        /\ local_changes = SignalAsStated(current_local, _last_local_state)
        /\ (DOMAIN _last_local_state = {} /\ DOMAIN current_local /= {}) => local_changes
        /\ (/\ DOMAIN _last_local_state /= {}
            /\ DOMAIN current_local = DOMAIN _last_local_state
            /\ \A p \in DOMAIN current_local :
                  /\ current_local[p][2] = _last_local_state[p][2]
                  /\ current_local[p][1] <= _last_local_state[p][1]) => ~local_changes

C7_Witness ==
    /\ pc = "signalled" /\ ~local_changes
    /\ \E p \in DOMAIN current_local : current_local[p][1] < _last_local_state[p][1]

\* The step of sync() from the loop into the tick, both scans done.
TickStarts == pc = "idle" /\ pc' /= "idle" /\ outcome' /= "raised"

\* C8 as stated: whenever a signal fires, process_local_changes is run.
C8_EitherSignalReconciles ==
    [][(TickStarts /\ (local_changes' \/ cloud_changes')) => pc' = "folders"]_vars

\* C8, amended: process_local_changes is run exactly when the local signal
\* fires; a tick in which only the remote signal fires goes straight to the
\* commit of the baselines and issues no call; with neither it returns.
C8_LocalSignalReconciles ==
    /\ []((call = "sync" /\ ~local_changes) => log = <<>>)
    /\ [][TickStarts =>
             /\ local_changes' => pc' = "folders"
             /\ (~local_changes' /\ cloud_changes') => pc' = "commit"
             /\ (~local_changes' /\ ~cloud_changes') => pc' = "returned"]_vars

\* Only the remote signal fired: the tick commits with the remote not
\* mirroring the local tree and nothing issued.
C8_Witness ==
    /\ call = "sync" /\ pc = "commit"
    /\ cloud_changes /\ ~local_changes
    /\ DOMAIN cloud /= DOMAIN local
    /\ log = <<>>

BaselinesAreSnapshots == _last_local_state = current_local /\ _last_cloud_state = current_cloud

\* C9 as stated: a tick in which a signal fired ends with both baselines
\* replaced by its snapshots, whatever failed inside reconciliation.
C9_AlwaysCommits ==
    (pc = "returned" /\ call = "sync" /\ (local_changes \/ cloud_changes))
    => BaselinesAreSnapshots

\* C9, amended: a tick in which a signal fired and that returns (failed
\* folder or file renames included) has replaced both baselines by its
\* snapshots; a tick that raises (a step-3 upload or a step-4 delete failed)
\* leaves both baselines as they were.
C9_CommitsUnlessRaised ==
    /\ []((pc = "returned" /\ call = "sync" /\ outcome = "ok" /\ (local_changes \/ cloud_changes))
            => BaselinesAreSnapshots)
    /\ [][(call' = "sync" /\ outcome' = "raised") => UNCHANGED baseline]_vars

C9_Witness ==
    /\ pc = "returned" /\ call = "sync" /\ outcome = "ok" /\ local_changes
    /\ \E i \in DOMAIN log : ~log[i].ok
    /\ BaselinesAreSnapshots

\* C10 as stated: no failed call makes sync() raise.
C10_NoItemEscalates ==
    (call = "sync" /\ \E i \in DOMAIN log : ~log[i].ok) => outcome /= "raised"

EveryRenameAttempted ==
    (call = "sync" /\ pc \in {"uploads", "deletes", "commit"} /\ local_changes /\ supports_move) =>
        /\ \A i \in DOMAIN folder_renames :
              \E j \in CallsOf({"rename"}) : log[j].src = ApiPath(folder_renames[i][1])
        /\ \A i \in DOMAIN renamed_pairs :
              \E j \in CallsOf({"rename"}) : log[j].src = ApiPath(renamed_pairs[i][1])

RenameFailureIsCaught ==
    (call = "sync" /\ pc \in {"folders", "files"}) =>
        /\ outcome' = "running"
        /\ todo /= <<>> => todo' = Tail(todo)

UploadOrDeleteFailureRaises ==
    (call = "sync" /\ pc \in {"uploads", "deletes"} /\ log' /= log /\ ~log'[Len(log')].ok) =>
        /\ outcome' = "raised"
        /\ pc' = "returned"
        /\ todo' = todo

\* C10, amended: a failing folder rename or file rename (its move, its
\* fallback upload or its fallback delete) is caught at the item: the loop
\* goes on, every rename pair gets its call and sync() does not raise for
\* it; a failing step-3 upload or step-4 delete is not caught: sync() raises
\* and the remaining paths of the tick are not visited.
C10_OnlyRenamesAreIsolated ==
    /\ []EveryRenameAttempted
    /\ [][RenameFailureIsCaught]_vars
    /\ [][UploadOrDeleteFailureRaises]_vars

\* A rename failed and a later call of the same tick went through.
C10_Witness ==
    /\ call = "sync" /\ pc = "commit"
    /\ \E i, j \in DOMAIN log : i < j /\ log[i].op = "rename" /\ ~log[i].ok /\ log[j].ok

\* ------------------------------------------------------------- liveness
\* A step of the program itself: main() never stops between two ticks, and
\* every loop of a call goes on to its next item.
ProgramStep == Next /\ env' = env

\* The run of main() with the program always taking its next step.
SpecLive == Spec /\ WF_vars(ProgramStep)

\* The tick is over and one of its calls failed.
TickEndedWithFailedItem ==
    /\ call = "sync" /\ pc = "returned"
    /\ \E i \in DOMAIN log : ~log[i].ok

\* A call or a scan of a tick fails.
TickFails == call = "sync" /\ (outcome = "raised" \/ \E i \in DOMAIN log : ~log[i].ok)

InSync == DOMAIN cloud = DOMAIN local

\* Nobody changes the local tree or the remote store any more.
EnvironmentDone == env = MaxEnv

\* C11: after a tick in which a reconciliation item failed, if nobody changes
\* the local tree or the remote store any more and no later tick has a
\* failing call, the remote file set eventually equals the local file set.
C11_SelfHealing ==
    []((TickEndedWithFailedItem /\ EnvironmentDone)
         => <>(pc = "idle" /\ <>(InSync \/ TickFails)))

\* C12: a call that raises has changed neither baseline: whenever a step
\* of initial_sync() or sync() changes a baseline, the call returns without
\* error in that step, with both baselines replaced.
C12_BaselineOnlyOnSuccess ==
    [][(baseline' /= baseline) =>
          /\ outcome' = "ok"
          /\ pc' = "returned"
          /\ _last_local_state' = current_local]_vars

\* The same for sync() alone.
C12_SyncBaselineOnlyOnSuccess ==
    [][(call' = "sync" /\ baseline' /= baseline) =>
          /\ outcome' = "ok"
          /\ pc' = "returned"
          /\ baseline' = snapshots]_vars

\* C13: initial_sync() on an empty local tree returns without error in its
\* first step, having issued no call that changes the store and with the
\* remote as it was.
C13_EmptyLocalIsNoOp ==
    [][(pc = "start" /\ DOMAIN local = {}) =>
          /\ pc' = "returned"
          /\ outcome' = "ok"
          /\ log' = <<>>
          /\ cloud' = cloud
          /\ baseline' = baseline]_vars

\* The remote held files and still holds them.
C13_Witness ==
    /\ call = "initial_sync" /\ pc = "returned" /\ outcome = "ok"
    /\ DOMAIN local = {}
    /\ DOMAIN cloud /= {}
    /\ log = <<>>

\* C14: the loop of main() does not end on a failure of sync(): a tick never
\* ends the process, a tick that is over (returned or raised) is followed by
\* the sleep, and from the sleep the next tick can always start.
C14_LoopSurvivesFailure ==
    /\ [](call = "sync" => pc /= "dead")
    /\ [](pc = "idle" => ENABLED SyncBegin)
    /\ [][(call = "sync" /\ pc = "returned") => (pc' = "idle" /\ prev' = <<"sync", outcome>>)]_vars

\* A tick runs after a tick that raised.
C14_Witness ==
    /\ call = "sync" /\ pc \notin {"idle", "dead"}
    /\ prev = <<"sync", "raised">>

\* The step of process_local_changes a call of the tick belongs to, read
\* from the call itself: a move of a renamed folder is step 1, a call on a
\* name of a file-rename pair is step 2, any other upload is step 3 and any
\* other delete is step 4.
StepOfCall(i) ==
    IF log[i].op = "rename" /\ Resolve(log[i].src) \in {pr[1] : pr \in Range(folder_renames)} THEN 1
    ELSE IF Resolve(log[i].src) \in ProcessedFiles(renamed_pairs) THEN 2
    ELSE IF log[i].op = "load" THEN 3
    ELSE IF log[i].op = "delete" THEN 4
    ELSE 0

\* C15: in the calls of one tick every folder-rename move comes before every
\* file-rename call, every file-rename call before every step-3 upload, and
\* every step-3 upload before every step-4 delete.
C15_FixedMutationOrder ==
    call = "sync" =>
        /\ \A i \in DOMAIN log : StepOfCall(i) >= 1
        /\ \A i, j \in DOMAIN log : i < j => StepOfCall(i) <= StepOfCall(j)

\* A tick with a folder move, a file-rename call and a step-3 upload.
C15_Witness ==
    /\ call = "sync" /\ pc = "commit"
    /\ \E i, j, k \in DOMAIN log : StepOfCall(i) = 1 /\ StepOfCall(j) = 2 /\ StepOfCall(k) = 3

\* A tick with a step-3 upload and a step-4 delete.
UploadThenDelete ==
    /\ call = "sync" /\ pc = "commit"
    /\ \E i, j \in DOMAIN log : StepOfCall(i) = 3 /\ StepOfCall(j) = 4

\* The calls of the tick with this operation on this path.
Calls(op, path) == {i \in DOMAIN log : log[i].op = op /\ Resolve(log[i].src) = path}

\* Step 2 is over.
FileRenamesOver == call = "sync" /\ pc \in {"uploads", "deletes", "commit"} /\ local_changes

\* What the tick has issued for one file-rename pair.
FallbackShape(old, new) ==
    LET moves == Calls("rename", old)
        loads == Calls("load", new)
        dels == Calls("delete", old)
        moved == \E i \in moves : log[i].ok
    IN /\ Cardinality(moves) = (IF supports_move THEN 1 ELSE 0)
       /\ \A i \in moves : log[i].dst = ApiPath(new)
       /\ Cardinality(loads) = (IF moved THEN 0 ELSE 1)
       /\ Cardinality(dels) = (IF \E i \in loads : log[i].ok THEN 1 ELSE 0)
       /\ \A i \in moves, j \in loads : i < j
       /\ \A i \in loads, j \in dels : i < j
       /\ Calls("load", old) = {}
       /\ Calls("delete", new) = {}

\* C16: for every file-rename pair the move comes first (when supported);
\* only if it is unsupported or fails the new path is uploaded, and only if
\* that upload succeeds the old remote path is deleted, after it; steps 3
\* and 4 issue nothing for either name, so these are the pair's only calls.
C16_RenameFallback ==
    /\ FileRenamesOver =>
          \A k \in DOMAIN renamed_pairs : FallbackShape(renamed_pairs[k][1], renamed_pairs[k][2])
    /\ (call = "sync" /\ pc \in {"uploads", "deletes"}) =>
          Range(todo) \cap ProcessedFiles(renamed_pairs) = {}

\* Move unsupported, the fallback went through, and steps 3 and 4 are over.
C16_Witness ==
    /\ call = "sync" /\ pc = "commit" /\ ~supports_move
    /\ \E k \in DOMAIN renamed_pairs :
          /\ \E i \in Calls("load", renamed_pairs[k][2]) : log[i].ok
          /\ \E i \in Calls("delete", renamed_pairs[k][1]) : log[i].ok

\* The move failed and the upload failed: nothing more for the pair.
BothFailed ==
    /\ call = "sync" /\ pc = "commit" /\ supports_move
    /\ \E k \in DOMAIN renamed_pairs :
          /\ \E i \in Calls("rename", renamed_pairs[k][1]) : ~log[i].ok
          /\ \E i \in Calls("load", renamed_pairs[k][2]) : ~log[i].ok

\* The folder pair was moved by a successful call of step 1.
FolderMoved(pr) == \E i \in Calls("rename", pr[1]) : log[i].ok /\ log[i].dst = ApiPath(pr[2])

\* C17: once step 1 has moved a folder, the tick issues no upload for a local
\* path under the new folder, and no delete and no move for a remote path of
\* the snapshot under the old folder.
C17_MovedFolderIsProcessed ==
    (call = "sync" /\ pc \in {"files", "uploads", "deletes", "commit", "returned"} /\ local_changes) =>
        \A k \in DOMAIN folder_renames :
            FolderMoved(folder_renames[k]) =>
                /\ \A p \in DOMAIN current_local :
                      IsPrefix(folder_renames[k][2], p) => Calls("load", p) = {}
                /\ \A q \in DOMAIN current_cloud :
                      IsPrefix(folder_renames[k][1], q) =>
                          Calls("delete", q) = {} /\ Calls("rename", q) = {}

\* The same when the file under the folder kept its mtime, so that it is a
\* file-rename pair as well.
C17_MovedFolderWithPairIsProcessed ==
    (renamed_pairs /= <<>>) => C17_MovedFolderIsProcessed

\* The same when the file under the folder has a newer mtime, so that it is
\* in no file-rename pair.
C17_MovedFolderWithoutPairIsProcessed ==
    (renamed_pairs = <<>>) => C17_MovedFolderIsProcessed

\* Step 3 is over.
UploadsOver == call = "sync" /\ pc \in {"deletes", "commit"} /\ local_changes

\* Conditions (a) of the upload decision, and absence from the remote.
AbsentOrChanged(p) ==
    \/ p \notin DOMAIN current_cloud
    \/ /\ p \in DOMAIN _last_local_state
       /\ \/ current_local[p][1] > _last_local_state[p][1]
          \/ current_local[p][2] /= _last_local_state[p][2]

\* C18: in a tick that gets through step 3, a local path outside the
\* file-rename pairs is uploaded exactly when it is absent from the remote
\* snapshot, or newer or of another size than its baseline entry, or its
\* local mtime is strictly newer than the remote modification time.
C18_UploadDecision ==
    UploadsOver =>
        \A p \in DOMAIN current_local \ ProcessedFiles(renamed_pairs) :
            (Calls("load", p) /= {}) <=>
                (AbsentOrChanged(p) \/ current_local[p][1] > current_cloud[p].modified)

\* The same with the remote modification time taken as the host reads it.
C18_UploadDecisionInHostTime ==
    UploadsOver =>
        \A p \in DOMAIN current_local \ ProcessedFiles(renamed_pairs) :
            /\ AbsentOrChanged(p) => Calls("load", p) /= {}
            /\ (Calls("load", p) /= {} /\ ~AbsentOrChanged(p)) =>
                  \E tz \in TzOffsets : current_local[p][1] > current_cloud[p].modified - tz
            /\ (Calls("load", p) = {}) =>
                  \E tz \in TzOffsets : current_local[p][1] <= current_cloud[p].modified - tz

\* The delete calls of step 4 (those of step 2 are on old names of pairs).
Step4Deletes == {i \in CallsOf({"delete"}) : Resolve(log[i].src) \notin ProcessedFiles(renamed_pairs)}
Step4Deleted == {Resolve(log[i].src) : i \in Step4Deletes}

\* In the remote snapshot, not in the local snapshot, in no file-rename pair.
StatedDeletionSet ==
    {p \in DOMAIN current_cloud :
        /\ p \notin DOMAIN current_local
        /\ \A k \in DOMAIN renamed_pairs : p /= renamed_pairs[k][1] /\ p /= renamed_pairs[k][2]}

\* Step 4 raised: the last call of the tick is a delete and sync() raised.
Step4Raised ==
    /\ call = "sync" /\ pc = "returned" /\ outcome = "raised"
    /\ log /= <<>> /\ log[Len(log)].op = "delete"

\* C19 as stated: a tick that reached step 4 and is over has issued a delete
\* for exactly the paths of the stated set.
C19_DeletesExactlyTheSet ==
    ((Reconciled \/ Step4Raised) /\ local_changes) => Step4Deleted = StatedDeletionSet

\* C19, amended: step 4 issues deletes only for paths of the stated set and
\* at most one for each; a tick that gets through step 4 has issued one for
\* every path of the set; a delete that fails ends the tick, so the paths
\* after it are left, and every delete before it succeeded.
C19_DeletesWithinTheSet ==
    /\ (call = "sync" /\ local_changes /\ pc /= "idle") =>
          /\ Step4Deleted \subseteq StatedDeletionSet
          /\ \A i, j \in Step4Deletes : Resolve(log[i].src) = Resolve(log[j].src) => i = j
          /\ \A i \in Step4Deletes : log[i].src = current_cloud[Resolve(log[i].src)].path
    /\ Reconciled => Step4Deleted = StatedDeletionSet
    /\ Step4Raised =>
          /\ ~log[Len(log)].ok
          /\ \A i \in Step4Deletes : i < Len(log) => log[i].ok

\* Two paths to delete, both deleted.
C19_Witness ==
    /\ Reconciled
    /\ Cardinality(StatedDeletionSet) >= 2
    /\ Step4Deleted = StatedDeletionSet

\* Two paths to delete, the first delete failed, the second path was left.
C19_LeftAfterFailure ==
    /\ Step4Raised
    /\ Cardinality(StatedDeletionSet) >= 2
    /\ Cardinality(Step4Deleted) = 1

\* The rename lists are built and the baseline is still the old one.
PairsBuilt == call = "sync" /\ local_changes /\ pc \in {"folders", "files", "uploads", "deletes", "commit"}

DisappearedLocally == DOMAIN _last_local_state \ DOMAIN current_local
AppearedLocally == DOMAIN current_local \ DOMAIN _last_local_state

\* The baseline entry of d and the file a as it is on disk have the same
\* size and the same mtime.
EqualSignature(d, a) == a \in DOMAIN local /\ _last_local_state[d] = local[a]

\* C20: every pair of the file-rename list is a disappeared path that is a
\* file of the remote snapshot with an appeared path of equal signature; and
\* a disappeared path of the remote snapshot is left unpaired only if every
\* appeared path of equal signature went to another pair.
C20_FileRenameDetection ==
    PairsBuilt =>
        /\ \A k \in DOMAIN renamed_pairs :
              LET d == renamed_pairs[k][1]
                  a == renamed_pairs[k][2]
              IN /\ d \in DisappearedLocally
                 /\ d \in DOMAIN current_cloud /\ current_cloud[d].type = "file"
                 /\ a \in AppearedLocally
                 /\ EqualSignature(d, a)
        /\ \A d \in DisappearedLocally \cap DOMAIN current_cloud :
              (\A k \in DOMAIN renamed_pairs : renamed_pairs[k][1] /= d) =>
                  \A a \in AppearedLocally :
                      EqualSignature(d, a) => \E k \in DOMAIN renamed_pairs : renamed_pairs[k][2] = a

\* Two disappeared files of the remote snapshot and one appeared file with
\* their signature: one pair, the other disappeared path unpaired.
C20_Witness ==
    /\ PairsBuilt
    /\ Len(renamed_pairs) = 1
    /\ Cardinality(DisappearedLocally \cap DOMAIN current_cloud) = 2
    /\ \A d \in DisappearedLocally : EqualSignature(d, renamed_pairs[1][2])

\* ------------------------------------------- rename detection on its own
\* Three folders, two of them with the same file name, so that folders and
\* files can compete for a partner.
DetectU == {<<"a", "f">>, <<"x", "f">>, <<"y", "f">>, <<"y", "h">>}
DetectEntries == {<<1, 1>>, <<1, 2>>}
DetectBaselineEntries == {<<1, 1>>}
DetectSizes == {1, 2}

\* process_local_changes is entered with any snapshots and any baseline.
InitDetect ==
    /\ U = DetectU
    /\ supports_move = TRUE
    /\ local \in PartialMaps(U, DetectEntries)
    /\ cloud \in PartialMaps(U, {[size |-> s, modified |-> ForeignTime] : s \in DetectSizes})
    /\ _last_local_state \in PartialMaps(U, DetectBaselineEntries)
    /\ _last_cloud_state = Empty
    /\ pc = "detect"
    /\ call = "process_local_changes"
    /\ outcome = "running"
    /\ current_local = scan_local_files(local)
    /\ current_cloud = ScanResult(cloud)
    /\ local_changes = TRUE
    /\ cloud_changes = FALSE
    /\ renamed_pairs = <<>>
    /\ folder_renames = <<>>
    /\ todo = <<>>
    /\ log = <<>>
    /\ env = 0
    /\ prev = <<"none", "ok">>
    /\ quiet = TRUE

\* process_local_changes, lines 99-100: both rename lists, as found.
DetectRenames ==
    /\ pc = "detect"
    /\ pc' = "detected"
    /\ renamed_pairs' \in _find_renamed_files(current_local, current_cloud, _last_local_state, local)
    /\ folder_renames' \in _find_renamed_folders(current_local, current_cloud, _last_local_state)
    /\ UNCHANGED <<world, cloud, baseline, call, outcome, snapshots, local_changes, cloud_changes,
                   todo, log, counters>>

SpecDetect == InitDetect /\ [][DetectRenames]_vars

DisappearedFolders == FoldersOf(DOMAIN _last_local_state) \ FoldersOf(DOMAIN current_local)
AppearedFolders == FoldersOf(DOMAIN current_local) \ FoldersOf(DOMAIN _last_local_state)

\* The sub-paths of the files a snapshot holds under a folder.
SubPaths(snapshot, folder) ==
    {SubSeq(f, Len(folder) + 1, Len(f)) : f \in {g \in DOMAIN snapshot : IsPrefix(folder, g)}}

\* Remote files under the old folder and local files under the new one: as
\* many, the same sub-paths, each of the same size.
SameStructure(old, new) ==
    /\ Cardinality(SubPaths(current_cloud, old)) = Cardinality(SubPaths(current_local, new))
    /\ SubPaths(current_cloud, old) = SubPaths(current_local, new)
    /\ \A sub \in SubPaths(current_local, new) :
          current_local[new \o sub][2] = current_cloud[old \o sub].size

OldFolders == {folder_renames[k][1] : k \in DOMAIN folder_renames}
NewFolders == {folder_renames[k][2] : k \in DOMAIN folder_renames}

\* C21: the folder comparison is true exactly for a remote old folder and a
\* local new folder with the same sub-paths of the same sizes; every pair of
\* the folder-rename list is such a disappeared and appeared folder; two
\* such folders are both left out only if one of them went to another pair;
\* no appeared folder is in two pairs.
C21_FolderRenameDetection ==
    pc = "detected" =>
        /\ \A d \in DisappearedFolders, a \in AppearedFolders :
              _compare_folder_structures(d, a, current_local, current_cloud) <=> SameStructure(d, a)
        /\ \A k \in DOMAIN folder_renames :
              /\ folder_renames[k][1] \in DisappearedFolders
              /\ folder_renames[k][2] \in AppearedFolders
              /\ SameStructure(folder_renames[k][1], folder_renames[k][2])
        /\ \A d \in DisappearedFolders, a \in AppearedFolders :
              SameStructure(d, a) => (d \in OldFolders \/ a \in NewFolders)
        /\ \A j, k \in DOMAIN folder_renames :
              folder_renames[j][2] = folder_renames[k][2] => j = k

\* A renamed folder found while another appeared folder has the same file
\* name in another size.
C21_Witness ==
    /\ pc = "detected"
    /\ Len(folder_renames) = 1
    /\ \E a \in AppearedFolders :
          /\ a \notin NewFolders
          /\ SubPaths(current_local, a) = SubPaths(current_cloud, folder_renames[1][1])
          /\ ~SameStructure(folder_renames[1][1], a)

\* ------------------------------------------ check_cloud_changes on its own
\* The items a listing may hold for a path.
CloudItems(p) == {[path |-> DiskPath(p), type |-> "file", size |-> sz, modified |-> t] : sz \in Sizes, t \in CloudTimes}

CloudSnapshots(S) == UNION {{f \in [D -> UNION {CloudItems(p) : p \in D}] : \A p \in D : f[p] \in CloudItems(p)} : D \in SUBSET S}

\* Any remote snapshot against any remote baseline.
InitCloudSignal ==
    /\ U \in Universes
    /\ supports_move = TRUE
    /\ local = Empty
    /\ cloud = Empty
    /\ current_cloud \in CloudSnapshots(U)
    /\ _last_cloud_state \in CloudSnapshots(U)
    /\ _last_local_state = Empty
    /\ pc = "signal"
    /\ call = "check_cloud_changes"
    /\ outcome = "running"
    /\ current_local = Empty
    /\ local_changes = FALSE
    /\ cloud_changes = FALSE
    /\ renamed_pairs = <<>>
    /\ folder_renames = <<>>
    /\ todo = <<>>
    /\ log = <<>>
    /\ env = 0
    /\ prev = <<"none", "ok">>
    /\ quiet = TRUE

CheckCloudSignal ==
    /\ pc = "signal"
    /\ cloud_changes' = check_cloud_changes(current_cloud, _last_cloud_state)
    /\ pc' = "signalled"
    /\ outcome' = "ok"
    /\ UNCHANGED <<world, cloud, baseline, call, snapshots, local_changes, renamed_pairs,
                   folder_renames, todo, log, counters>>

SpecCloudSignal == InitCloudSignal /\ [][CheckCloudSignal]_vars

\* The remote signal as stated: no baseline, other keys, or a shared path
\* of another size or with a newer stamp.
CloudSignalAsStated(cur, last) ==
    \/ DOMAIN last = {}
    \/ DOMAIN cur /= DOMAIN last
    \/ \E p \in DOMAIN cur \cap DOMAIN last :
          cur[p].size /= last[p].size \/ cur[p].modified > last[p].modified

\* C22: check_cloud_changes returns true exactly when the remote baseline
\* is empty, the key sets differ, or a shared path differs in size or has a
\* strictly newer modification time.
C22_RemoteSignal ==
    pc = "signalled" => (cloud_changes <=> CloudSignalAsStated(current_cloud, _last_cloud_state))

\* The half of C22 the size is about: a shared path of another size signals.
C22_SizeSignals ==
    (pc = "signalled" /\ DOMAIN _last_cloud_state /= {}
        /\ \E p \in DOMAIN current_cloud \cap DOMAIN _last_cloud_state :
              current_cloud[p].size /= _last_cloud_state[p].size)
    => cloud_changes

\* The half of C22 the stamp is about: with equal keys and sizes, and no
\* stamp newer than the baseline's, there is no signal.
C22_OlderStampIsQuiet ==
    (pc = "signalled" /\ DOMAIN _last_cloud_state /= {}
        /\ DOMAIN current_cloud = DOMAIN _last_cloud_state
        /\ \A p \in DOMAIN current_cloud :
              /\ current_cloud[p].size = _last_cloud_state[p].size
              /\ current_cloud[p].modified <= _last_cloud_state[p].modified)
    => ~cloud_changes

\* Call i of the log is a load of its path that failed.
FailedLoad(i) == log[i].op = "load" /\ ~log[i].ok

\* Call i closes a run of n failed loads of one path.
ClosesFailedRun(i, n) ==
    /\ i >= n
    /\ \A j \in (i - n + 1)..i : FailedLoad(j) /\ log[j].src = log[i].src

\* A failed load is followed by another attempt on the same path, unless it
\* was the last of UploadRetries attempts; a load that succeeded is not
\* repeated; the call raises on a load only after the last attempt.
UploadsRetried ==
    /\ \A i \in DOMAIN log :
          FailedLoad(i) =>
              \/ ClosesFailedRun(i, UploadRetries)
              \/ i + 1 \in DOMAIN log /\ log[i + 1].op = "load" /\ log[i + 1].src = log[i].src
    /\ \A i \in DOMAIN log :
          (log[i].op = "load" /\ log[i].ok /\ i + 1 \in DOMAIN log)
              => ~(log[i + 1].op = "load" /\ log[i + 1].src = log[i].src)
    /\ (outcome = "raised" /\ log /= <<>> /\ FailedLoad(Len(log)))
          => ClosesFailedRun(Len(log), UploadRetries)

\* C23: every upload of initial_sync and of a tick is attempted up to
\* UploadRetries times, stops at the first success, and raises only after
\* the last attempt failed.
C23_EveryUploadRetried == UploadsRetried

\* The uploads of initial_sync are retried as stated.
C23_InitialUploadsRetried == call = "initial_sync" => UploadsRetried

\* An upload of initial_sync that succeeded at its last attempt.
C23_InitialRetryReached ==
    /\ call = "initial_sync"
    /\ \E i \in DOMAIN log : log[i].op = "load" /\ log[i].ok /\ i > 2 /\ ClosesFailedRun(i - 1, 2)

\* ------------------------------- scan_cloud_files_with_retry on its own
\* The largest max_retries tried; the program passes 3 and 5.
MaxRetriesTried == 5

\* range(max_retries)
RangeOf(max_retries) == [i \in 1..max_retries |-> i - 1]

\* The test with "max_retries" for "max_retries - 1": never true in the loop.
LastAttemptOffByOne(attempt, max_retries) == attempt = max_retries

\* attempt == max_retries - 1
LastAttempt(attempt, max_retries) == attempt = max_retries - 1

\* The method is called with some max_retries on some remote store; todo
\* holds range(max_retries) and the attempt at hand is the number of
\* listings made so far.
InitScan ==
    /\ U \in Universes
    /\ supports_move = TRUE
    /\ local = Empty
    /\ cloud \in PartialMaps(U, {[size |-> sz, modified |-> ForeignTime] : sz \in Sizes})
    /\ _last_local_state = Empty
    /\ _last_cloud_state = Empty
    /\ pc = "scan"
    /\ call = "scan_cloud_files_with_retry"
    /\ outcome = "running"
    /\ current_local = Empty
    /\ current_cloud = Empty
    /\ local_changes = FALSE
    /\ cloud_changes = FALSE
    /\ renamed_pairs = <<>>
    /\ folder_renames = <<>>
    /\ todo \in {RangeOf(n) : n \in 0..MaxRetriesTried}
    /\ log = <<>>
    /\ env = 0
    /\ prev = <<"none", "ok">>
    /\ quiet = TRUE

\* One pass of the loop body: the listing, and the return, the raise or
\* the sleep before the next attempt.
ScanAttempt ==
    /\ pc = "scan"
    /\ Len(log) < Len(todo)
    /\ LET attempt == todo[Len(log) + 1]
       IN \E ok \in BOOLEAN :
             /\ log' = Append(log, Call("get_recursive_info", <<>>, <<>>, ok))
             /\ IF ok
                THEN /\ current_cloud' = ScanResult(cloud)
                     /\ pc' = "returned"
                     /\ outcome' = "ok"
                ELSE IF LastAttempt(attempt, Len(todo))
                THEN /\ pc' = "returned"
                     /\ outcome' = "raised"
                     /\ UNCHANGED current_cloud
                ELSE UNCHANGED <<pc, outcome, current_cloud>>
    /\ UNCHANGED <<world, cloud, baseline, call, current_local, detected, todo, counters>>

\* The loop is exhausted without a return or a raise: the method returns None.
ScanFallsOff ==
    /\ pc = "scan"
    /\ Len(log) >= Len(todo)
    /\ pc' = "returned"
    /\ outcome' = "ok"
    /\ UNCHANGED <<world, cloud, baseline, call, snapshots, detected, todo, log, counters>>

\* Someone else removes a remote file while the method sleeps.
ScanRemoteChange ==
    /\ pc = "scan"
    /\ env < MaxEnv
    /\ env' = env + 1
    /\ \E p \in DOMAIN cloud : cloud' = Drop(cloud, {p})
    /\ UNCHANGED <<world, baseline, pc, call, outcome, snapshots, detected, todo, log, prev, quiet>>

NextScan == ScanAttempt \/ ScanFallsOff \/ ScanRemoteChange

\* Every sleep of the loop ends.
SpecScan == InitScan /\ [][NextScan]_vars /\ WF_vars(ScanAttempt \/ ScanFallsOff)

Listings == {i \in DOMAIN log : log[i].op = "get_recursive_info"}

\* What the method has done when it is over, for max_retries >= 1.
ScanOutcomeAsStated ==
    (pc = "returned" /\ Len(todo) >= 1) =>
        /\ Cardinality(Listings) <= Len(todo)
        /\ outcome \in {"ok", "raised"}
        /\ outcome = "ok" =>
              /\ log[Len(log)].ok
              /\ \A i \in 1..(Len(log) - 1) : ~log[i].ok
              /\ current_cloud = ScanResult(cloud)
        /\ outcome = "raised" <=> (Len(log) = Len(todo) /\ \A i \in DOMAIN log : ~log[i].ok)

\* C24: scan_cloud_files_with_retry with max_retries >= 1 lists at most
\* max_retries times, returns the snapshot of the first listing that
\* succeeded and lists no more, raises exactly when every one of the
\* max_retries listings failed, and always comes to an end.
C24_BoundedScanRetry ==
    /\ [](Cardinality(Listings) <= Len(todo))
    /\ []ScanOutcomeAsStated
    /\ [][pc = "returned" => log' = log]_vars
    /\ <>(pc = "returned")

\* The snapshot of the last allowed attempt, after the store changed.
C24_Witness ==
    /\ pc = "returned"
    /\ outcome = "ok"
    /\ Len(todo) = DefaultScanRetries
    /\ Len(log) = Len(todo)
    /\ env > 0
    /\ current_cloud /= Empty

\* Every attempt failed and the method raised.
C24_AllFailed == pc = "returned" /\ outcome = "raised" /\ Len(log) = InitialScanRetries

\* ------------------------------------- initial_sync with the world moving
\* While initial_sync runs between its scan and its verification, a local
\* file is removed...
InitialLocalRemove ==
    /\ pc \in {"wipe", "mkdir", "upload"}
    /\ env < MaxEnv
    /\ env' = env + 1
    /\ \E p \in DOMAIN local : local' = Drop(local, {p})
    /\ UNCHANGED <<U, supports_move, cloud, baseline, pc, call, outcome, snapshots, detected,
                   todo, log, prev, quiet>>

\* ... or someone else removes a file of the remote store.
InitialRemoteRemove ==
    /\ pc \in {"wipe", "mkdir", "upload"}
    /\ env < MaxEnv
    /\ env' = env + 1
    /\ \E p \in DOMAIN cloud : cloud' = Drop(cloud, {p})
    /\ UNCHANGED <<world, baseline, pc, call, outcome, snapshots, detected, todo, log, prev, quiet>>

NextInitial ==
    \/ InitialSyncBegin
    \/ WipeStep
    \/ WipeDone
    \/ MkdirStep
    \/ MkdirDone
    \/ UploadAllStep
    \/ ValidateAndCommit
    \/ InitialLocalRemove
    \/ InitialRemoteRemove

SpecInitial == Init /\ [][NextInitial]_vars

\* C25: initial_sync sets a baseline only in the step whose verification
\* listing holds every path of the scanned local snapshot; when a path is
\* missing the verification raises and both baselines stay as they were; after a
\* successful initial_sync every key of the local baseline is on the remote.
C25_CompletenessGate ==
    /\ [][(call = "initial_sync" /\ baseline' /= baseline)
             => DOMAIN current_local \subseteq DOMAIN ScanResult(cloud)]_vars
    /\ [][(pc = "upload" /\ todo = <<>> /\ env' = env
              /\ ~(DOMAIN current_local \subseteq DOMAIN ScanResult(cloud)))
             => (outcome' = "raised" /\ baseline' = baseline)]_vars
    /\ []((call = "initial_sync" /\ pc = "returned" /\ outcome = "ok")
             => DOMAIN _last_local_state \subseteq DOMAIN cloud)

\* The verification found a scanned path missing and initial_sync raised.
C25_Witness ==
    /\ call = "initial_sync"
    /\ pc = "dead"
    /\ outcome = "raised"
    /\ todo = <<>>
    /\ log /= <<>>
    /\ log[Len(log)].ok
    /\ ~(DOMAIN current_local \subseteq DOMAIN cloud)
    /\ baseline = <<Empty, Empty>>

\* A baseline of two paths committed by initial_sync.
C25_Committed ==
    /\ call = "initial_sync"
    /\ pc = "returned"
    /\ Cardinality(DOMAIN _last_local_state) = 2

\* The phase of initial_sync a client call belongs to.
PhaseOf(c) ==
    CASE c.op = "delete" -> 1
      [] c.op = "create_folder" -> 2
      [] c.op = "load" -> 3
      [] OTHER -> 0

\* Call i is the one a phase gives up on: a failed delete, a failed
\* create_folder, or the last failed attempt of an upload.
GivesUp(i) ==
    \/ log[i].op \in {"delete", "create_folder"} /\ ~log[i].ok
    \/ ClosesFailedRun(i, UploadRetries)

\* C26: the client calls of initial_sync are the deletes of the wipe, then
\* the folder creations, then the uploads; the call a phase gives up on is
\* the last call of initial_sync, which has raised; and the verification
\* listing is taken only after the uploads, when no phase gave up.
C26_PhaseOrderAndAbort ==
    /\ [](call = "initial_sync" =>
             /\ \A i, j \in DOMAIN log : i < j => (PhaseOf(log[i]) >= 1 /\ PhaseOf(log[i]) <= PhaseOf(log[j]))
             /\ \A i \in DOMAIN log : GivesUp(i) => (i = Len(log) /\ outcome = "raised" /\ pc = "dead"))
    /\ [][(call = "initial_sync" /\ pc = "upload" /\ pc' /= pc /\ log' = log)
             => (todo = <<>> /\ \A i \in DOMAIN log : ~GivesUp(i))]_vars

\* A wipe and a folder creation went through and an upload was given up.
C26_Witness ==
    /\ call = "initial_sync"
    /\ outcome = "raised"
    /\ \E i, j \in DOMAIN log : log[i].op = "delete" /\ log[j].op = "create_folder"
    /\ log /= <<>>
    /\ ClosesFailedRun(Len(log), UploadRetries)

\* The wipe gave up on its first delete.
C26_WipeGaveUp == call = "initial_sync" /\ Len(log) = 1 /\ ~log[1].ok /\ log[1].op = "delete" /\ pc = "dead"

FolderCalls == {i \in DOMAIN log : log[i].op = "create_folder"}

\* C27: create_folder_structure calls create_folder once for every proper
\* directory prefix of the paths it is given and for nothing else, and no
\* folder is created before one of its ancestors.
C27_FoldersShallowestFirst ==
    /\ call = "initial_sync" =>
          /\ \A i, j \in FolderCalls : i < j => (log[i].src /= log[j].src /\ ~IsPrefix(log[j].src, log[i].src))
          /\ \A i \in FolderCalls : log[i].src \in FoldersOf(DOMAIN current_local)
          /\ \A i \in FolderCalls :
                \A d \in FoldersOf({log[i].src}) : \E j \in FolderCalls : j < i /\ log[j].src = d
    /\ (call = "initial_sync" /\ pc = "upload") =>
          {log[i].src : i \in FolderCalls} = FoldersOf(DOMAIN current_local)

\* Two nested folders on each of two branches, all four created.
C27_Witness ==
    /\ call = "initial_sync"
    /\ pc = "upload"
    /\ Cardinality(FolderCalls) = 4
    /\ \E i, j \in FolderCalls : IsPrefix(log[i].src, log[j].src)

\* A tick on a client without rename that found a folder rename.
FolderRenameWithoutMove == call = "sync" /\ ~supports_move /\ local_changes /\ folder_renames /= <<>>

\* C28: on a client without move a detected folder rename fails, and the
\* tick uploads no file under the new folder and deletes no file under the
\* old folder.
C28_NoFolderFallback ==
    FolderRenameWithoutMove =>
        \A k \in DOMAIN folder_renames, i \in DOMAIN log :
            /\ log[i].op /= "rename"
            /\ ~(log[i].op = "load" /\ IsPrefix(folder_renames[k][2], log[i].src))
            /\ ~(log[i].op = "delete" /\ IsPrefix(folder_renames[k][1], Resolve(log[i].src)))

\* The first half of C28: the folder rename itself issues no call at all.
C28_FolderRenameFails ==
    FolderRenameWithoutMove => \A i \in DOMAIN log : log[i].op /= "rename"

\* The second half of C28 for the files that are no file-rename pair.
C28_NoFallbackOutsidePairs ==
    FolderRenameWithoutMove =>
        \A k \in DOMAIN folder_renames, i \in DOMAIN log :
            /\ (log[i].op = "load" /\ IsPrefix(folder_renames[k][2], log[i].src))
                  => log[i].src \in ProcessedFiles(renamed_pairs)
            /\ (log[i].op = "delete" /\ IsPrefix(folder_renames[k][1], Resolve(log[i].src)))
                  => Resolve(log[i].src) \in ProcessedFiles(renamed_pairs)

\* Every iteration order of the two sets gives the pairs that were found.
FilePairsDetermined ==
    \A r \in _find_renamed_files(current_local, current_cloud, _last_local_state, local) :
        Range(r) = Range(renamed_pairs)

FolderPairsDetermined ==
    \A r \in _find_renamed_folders(current_local, current_cloud, _last_local_state) :
        Range(r) = Range(folder_renames)

\* C29: for a given baseline, local snapshot and remote snapshot, the
\* file-rename pairs and the folder-rename pairs are the same set of pairs
\* whatever the iteration order of the disappeared and appeared sets.
C29_PairingIsDeterministic ==
    pc = "detected" => (FilePairsDetermined /\ FolderPairsDetermined)

\* C29 for the files alone, and for the folders alone.
C29_FilePairingIsDeterministic == pc = "detected" => FilePairsDetermined
C29_FolderPairingIsDeterministic == pc = "detected" => FolderPairsDetermined

\* Where no two candidates carry the same signature the pairs are determined.
C29_DeterminedWithoutTies ==
    (/\ pc = "detected"
     /\ \A a, b \in AppearedLocally : a /= b => local[a] /= local[b]
     /\ \A d, e \in DisappearedLocally \cap DOMAIN current_cloud :
           d /= e => _last_local_state[d] /= _last_local_state[e])
    => FilePairsDetermined

\* No old name and no new name of a list of pairs occurs twice.
OneToOne(pairs) ==
    \A j, k \in DOMAIN pairs :
        (pairs[j][1] = pairs[k][1] \/ pairs[j][2] = pairs[k][2]) => j = k

\* C30: in the file-rename list and in the folder-rename list no old name
\* and no new name occurs in two pairs, every old name disappeared (it is
\* in the baseline and not in the local snapshot) and every new name
\* appeared (it is in the local snapshot and not in the baseline).
C30_PairingIsOneToOne ==
    pc = "detected" =>
        /\ OneToOne(renamed_pairs)
        /\ \A k \in DOMAIN renamed_pairs :
              /\ renamed_pairs[k][1] \in DOMAIN _last_local_state \ DOMAIN current_local
              /\ renamed_pairs[k][2] \in DOMAIN current_local \ DOMAIN _last_local_state
        /\ OneToOne(folder_renames)
        /\ \A k \in DOMAIN folder_renames :
              /\ folder_renames[k][1] \in FoldersOf(DOMAIN _last_local_state) \ FoldersOf(DOMAIN current_local)
              /\ folder_renames[k][2] \in FoldersOf(DOMAIN current_local) \ FoldersOf(DOMAIN _last_local_state)

\* Two disappeared files and two disappeared folders that all match the one
\* appeared file and folder: one pair in each list.
C30_Witness ==
    /\ pc = "detected"
    /\ Len(renamed_pairs) = 1
    /\ Len(folder_renames) = 1
    /\ \E d \in DisappearedLocally \cap DOMAIN current_cloud :
          /\ d /= renamed_pairs[1][1]
          /\ EqualSignature(d, renamed_pairs[1][2])
    /\ \E d \in DisappearedFolders :
          /\ d /= folder_renames[1][1]
          /\ SameStructure(d, folder_renames[1][2])

\* Every iteration order of the two sets gives as many pairs as were found.
FilePairCountDetermined ==
    \A r \in _find_renamed_files(current_local, current_cloud, _last_local_state, local) :
        Len(r) = Len(renamed_pairs)

FolderPairCountDetermined ==
    \A r \in _find_renamed_folders(current_local, current_cloud, _last_local_state) :
        Len(r) = Len(folder_renames)

\* The disappeared names _find_renamed_files does not skip.
FileCandidates == DisappearedLocally \cap DOMAIN current_cloud

\* C31: the number of file-rename pairs and of folder-rename pairs is the
\* same for every iteration order of the disappeared and appeared sets, and
\* no matching by equal signature (equal structure) has more pairs.
C31_PairCountIsDetermined ==
    pc = "detected" =>
        /\ FilePairCountDetermined
        /\ FolderPairCountDetermined
        /\ \A D \in SUBSET FileCandidates :
              (\E f \in [D -> AppearedLocally] :
                  /\ \A d \in D : EqualSignature(d, f[d])
                  /\ \A d, e \in D : f[d] = f[e] => d = e)
              => Cardinality(D) <= Len(renamed_pairs)
        /\ \A D \in SUBSET DisappearedFolders :
              (\E f \in [D -> AppearedFolders] :
                  /\ \A d \in D : SameStructure(d, f[d])
                  /\ \A d, e \in D : f[d] = f[e] => d = e)
              => Cardinality(D) <= Len(folder_renames)

\* The pairs differ with the iteration order and their number does not.
C31_Witness ==
    /\ pc = "detected"
    /\ ~FilePairsDetermined
    /\ ~FolderPairsDetermined
    /\ Len(renamed_pairs) = 1
    /\ Len(folder_renames) = 1
    /\ \E d \in DisappearedLocally : d \notin DOMAIN current_cloud

DeleteCalls == {i \in DOMAIN log : log[i].op = "delete"}

\* C32: a tick issues no delete for a path that is a key of the current
\* local snapshot: every delete is on a path step 4 walks, which is absent
\* from the local snapshot, or on the old name of a file-rename pair.
C32_NoDeleteOfLocalFile ==
    call = "sync" =>
        \A i \in DeleteCalls :
            LET target == Resolve(log[i].src)
            IN /\ target \notin DOMAIN current_local
               /\ \/ /\ target \in DOMAIN current_cloud \ DOMAIN current_local
                     /\ target \in DeleteSet(current_local, current_cloud, renamed_pairs)
                  \/ \E k \in DOMAIN renamed_pairs : renamed_pairs[k][1] = target

\* A tick that deleted the old name of a pair and a path of step 4 while
\* the local snapshot holds a file.
C32_Witness ==
    /\ call = "sync"
    /\ current_local /= Empty
    /\ \E i, j \in DeleteCalls :
          /\ \E k \in DOMAIN renamed_pairs : renamed_pairs[k][1] = Resolve(log[i].src)
          /\ Resolve(log[j].src) \in DeleteSet(current_local, current_cloud, renamed_pairs)

\* initial_sync has returned early: the local tree was empty.
ReturnedEarly == call = "initial_sync" /\ pc = "returned" /\ DOMAIN current_local = {}

\* The early return leaves both baselines empty; the local baseline stays
\* empty while the tree is empty; and with an empty local baseline every
\* tick that gets its two snapshots has the local signal set.
EmptyBaselineSignals ==
    /\ [](ReturnedEarly => baseline = <<Empty, Empty>>)
    /\ [][(_last_local_state = Empty /\ DOMAIN local = {}) => _last_local_state' = Empty]_vars
    /\ [][(pc = "idle" /\ pc' /= "idle" /\ _last_local_state = Empty /\ outcome' /= "raised")
             => local_changes']_vars

\* The first tick after the early return is over, and the tree was empty.
FirstTickOnEmptyTreeOver ==
    /\ call = "sync"
    /\ prev = <<"initial_sync", "ok">>
    /\ pc = "returned"
    /\ _last_local_state = Empty
    /\ DOMAIN current_local = {}

\* C33 as stated: after the early return the baseline stays empty and the
\* local signal fires; the first tick on the still empty tree issues a
\* delete for every file of the remote snapshot.
C33_EmptyTreeWipesRemote ==
    /\ EmptyBaselineSignals
    /\ [](FirstTickOnEmptyTreeOver =>
             \A p \in DOMAIN current_cloud :
                 \E i \in DeleteCalls : log[i].src = current_cloud[p].path)

\* C33: after the early return the baseline stays empty and the local
\* signal fires; the first tick on the still empty tree issues deletes on
\* files of the remote snapshot only, one for every file when it gets
\* through; when a delete fails it raises and that delete is its last call.
C33_EmptyTreeWipesRemoteUnlessRaised ==
    /\ EmptyBaselineSignals
    /\ [](FirstTickOnEmptyTreeOver =>
             /\ \A i \in DOMAIN log :
                   /\ log[i].op = "delete"
                   /\ \E p \in DOMAIN current_cloud : log[i].src = current_cloud[p].path
                   /\ ~log[i].ok => (i = Len(log) /\ outcome = "raised")
             /\ outcome = "ok" =>
                   \A p \in DOMAIN current_cloud :
                       \E i \in DeleteCalls : log[i].src = current_cloud[p].path)

\* The first tick after the early return deleted both remote files.
C33_Witness ==
    /\ FirstTickOnEmptyTreeOver
    /\ outcome = "ok"
    /\ Cardinality(DOMAIN current_cloud) = 2
    /\ Cardinality(DeleteCalls) = 2
    /\ cloud = Empty

\* The first tick after the early return raised on its first delete.
C33_RaisedOnDelete ==
    /\ FirstTickOnEmptyTreeOver
    /\ outcome = "raised"
    /\ Cardinality(DOMAIN current_cloud) = 2
    /\ Cardinality(DeleteCalls) = 1

\* A path of step 3 under a folder the remote snapshot does not hold.
UnderNewFolder(p) ==
    /\ p \in UploadSet(current_local, renamed_pairs)
    /\ p \notin DOMAIN current_cloud
    /\ \E d \in FoldersOf({p}) : d \notin FoldersOf(DOMAIN current_cloud)

\* C34: a tick issues no create_folder call, and a file under a folder
\* that the remote does not hold is uploaded by step 3 all the same.
C34_NoFolderCreationInTick ==
    /\ call = "sync" => \A i \in DOMAIN log : log[i].op /= "create_folder"
    /\ UploadsOver => \A p \in DOMAIN current_local : UnderNewFolder(p) => Calls("load", p) /= {}

\* After an initial_sync that created folders, a tick uploaded a file
\* under two nested folders that the remote did not hold.
C34_Witness ==
    /\ UploadsOver
    /\ prev = <<"initial_sync", "ok">>
    /\ _last_local_state /= Empty
    /\ FoldersOf(DOMAIN _last_local_state) /= {}
    /\ \E p \in DOMAIN current_local :
          /\ UnderNewFolder(p)
          /\ FoldersOf({p}) \cap FoldersOf(DOMAIN current_cloud) = {}
          /\ \E i \in Calls("load", p) : log[i].ok

\* create_folder is issued by initial_sync.
C34_InitialSyncCreatesFolders ==
    call = "initial_sync" /\ \E i \in DOMAIN log : log[i].op = "create_folder" /\ log[i].ok

====
